---- MODULE Spec2Model ----
(***************************************************************************)
(* Artifact deletion engine of the registry: the deletion service          *)
(* (registry/app/services/deletion/service.go), the reindexing service,    *)
(* the metadata controller's hard-delete path and the image / artifact     *)
(* repositories they drive.                                                *)
(*                                                                         *)
(* Tables are sets of rows.  Image and manifest rows carry surrogate ids   *)
(* drawn from counters, as the database does, so that a row deleted and    *)
(* created again is a different row.                                       *)
(***************************************************************************)
EXTENDS Integers, Sequences, FiniteSets, TLC

VARIABLES
    untagged,        \* value of the "untagged images" feature flag
    images,          \* images table
    nextImageID,     \* next image_id the database hands out
    artifacts,       \* artifacts table
    manifests,       \* manifests table
    nextManifestID,  \* next manifest_id the database hands out
    manifestRefs,    \* manifest_references table (parent list -> child)
    tags,            \* tags table
    blobs,           \* blobs table (shared byte content)
    blobLinks,       \* registry_blobs table (blob linked to an image)
    files,           \* file manager nodes (backing files of generic packages)
    calls,           \* in-flight calls, one per request
    last,            \* the call that completed last, with its outcome
    clock,           \* time.Now().UnixMilli()
    registries,      \* registries table
    snapshot         \* each row as it was before its latest soft deletion

vars == <<untagged, images, nextImageID, artifacts, manifests, nextManifestID,
          manifestRefs, tags, blobs, blobLinks, files, calls, last,
          clock, registries, snapshot>>

(***************************************************************************)
(* Bounds of the model.                                                    *)
(***************************************************************************)
MaxManifestID == 2
MaxImageID == 2
MaxClock == 1

(***************************************************************************)
(* Universe of inputs.                                                     *)
(***************************************************************************)
Digests == {"sha256:aaa", "sha256:bbb"}
TagNames == {"v1", "v2"}
GenericVersions == {"1.0.0", "2.0.0"}
Blobs == {"b1"}
Procs == {"p1"}

\* principalID *int64: NilPrincipal stands for the nil pointer.
NilPrincipal == -1
Principals == {NilPrincipal, 42}

\* The digest zero value ("" in the code).
NoDigest == ""
NULL == -1

MediaTypeManifest == "application/vnd.oci.image.manifest.v1+json"
MediaTypeImageIndex == "application/vnd.oci.image.index.v1+json"
MediaTypeManifestList == "application/vnd.docker.distribution.manifest.list.v2+json"
MediaTypes == {MediaTypeManifest, MediaTypeImageIndex, MediaTypeManifestList}

\* regInfo.PackageType of each registry (immutable after creation).
PackageTypeOf(reg) ==
    CASE reg = "r1" -> "DOCKER"
      [] reg = "r2" -> "HELM"
      [] reg = "g1" -> "GENERIC"
      [] reg = "g2" -> "GO"
      [] reg = "g3" -> "RPM"
      [] reg = "h1" -> "HUGGINGFACE"
      [] reg = "c1" -> "CARGO"
      [] OTHER -> "CUSTOM"

\* artifact.PackageType: the types the core names, and one it does not.
PackageTypes ==
    {"DOCKER", "HELM", "NPM", "MAVEN", "PYTHON", "GENERIC", "NUGET", "RPM", "GO",
     "CARGO", "HUGGINGFACE", "CUSTOM"}

\* Error kinds returned by the operations ("ok" is the nil error).
ErrOK == "ok"
ErrNotFound == "not_found"
ErrConflict == "conflict"
ErrInternal == "internal"
ErrStorage == "storage"
ErrUnsupported == "unsupported"
ErrNoRows == "not_found_or_already_in_target_state"


(***************************************************************************)
(* Rows.                                                                   *)
(***************************************************************************)
ImageRow(id, reg, name) ==
    [id |-> id, reg |-> reg, name |-> name, deletedAt |-> NULL, deletedBy |-> NULL,
     updatedAt |-> 0, updatedBy |-> 0]

ArtifactRow(imageID, version) ==
    [imageID |-> imageID, version |-> version, deletedAt |-> NULL, deletedBy |-> NULL,
     updatedAt |-> 0, updatedBy |-> 0]

\* registries table: the name stands for registry_id.
RegistryRow(reg) == [reg |-> reg, deletedAt |-> NULL, deletedBy |-> NULL]

RegistryNames == {"r1", "r2", "g1", "g2", "g3", "h1", "c1", "x1"}

ManifestRow(id, reg, image, dig, mediaType) ==
    [id |-> id, reg |-> reg, image |-> image, digest |-> dig, mediaType |-> mediaType]

TagRow(reg, image, name, manifestID) ==
    [reg |-> reg, image |-> image, name |-> name, manifestID |-> manifestID]

\* The database as one value, so that a transaction can be computed as a
\* function from the database before it to the database after it.
DB ==
    [images |-> images, artifacts |-> artifacts, manifests |-> manifests,
     manifestRefs |-> manifestRefs, tags |-> tags, blobLinks |-> blobLinks,
     files |-> files]

(***************************************************************************)
(* types.NewDigest followed by Digest.String(): the stored form of a       *)
(* digest.  The error of NewDigest is dropped by the caller, so a version  *)
(* that is no digest yields the zero value.                                *)
(***************************************************************************)
NewDigest(d) ==
    CASE d = "sha256:aaa" -> "01aaa"
      [] d = "sha256:bbb" -> "01bbb"
      [] OTHER -> NoDigest

(***************************************************************************)
(* Image and artifact repositories (hard delete).                          *)
(***************************************************************************)
\* image_id of the rows matching image_name = ? AND image_registry_id = ?
ImageIDsByName(imgs, reg, name) ==
    {i.id : i \in {x \in imgs : x.reg = reg /\ x.name = name}}

\* ImageDao.GetByName under the default (exclude deleted) filter.
ImageGetByName(imgs, reg, name) ==
    {i \in imgs : i.reg = reg /\ i.name = name /\ i.deletedAt = NULL}

\* ArtifactDao.GetByName under the default (exclude deleted) filter.
ArtifactGetByName(arts, imageID, version) ==
    {a \in arts : a.imageID = imageID /\ a.version = version /\ a.deletedAt = NULL}

\* ImageDao.CreateOrUpdate: insert, or on conflict (registry, name) keep the row.
ImageCreateOrUpdate(imgs, id, reg, name) ==
    IF ImageIDsByName(imgs, reg, name) = {} THEN imgs \cup {ImageRow(id, reg, name)}
    ELSE imgs

\* ArtifactDao.CreateOrUpdate: insert, or on conflict (image, version) keep the row.
ArtifactCreateOrUpdate(arts, imageID, version) ==
    IF \E a \in arts : a.imageID = imageID /\ a.version = version THEN arts
    ELSE arts \cup {ArtifactRow(imageID, version)}

\* DELETE FROM artifacts USING images WHERE version, image name and registry match.
ArtifactDeleteByVersionAndImageName(arts, imgs, image, version, reg) ==
    {a \in arts : ~(a.version = version /\ a.imageID \in ImageIDsByName(imgs, reg, image))}

\* DELETE FROM artifacts USING images WHERE image name and registry match.
ArtifactDeleteByImageNameAndRegistryID(arts, imgs, reg, image) ==
    {a \in arts : a.imageID \notin ImageIDsByName(imgs, reg, image)}

\* DELETE FROM images WHERE image_name = ? AND image_registry_id = ?
ImageDeleteByImageNameAndRegID(imgs, reg, image) ==
    {i \in imgs : ~(i.name = image /\ i.reg = reg)}

\* Variant: the NOT EXISTS guard looks at live artifact rows only.
ImageDeleteIfNoLiveArtifacts(imgs, arts, reg, image) ==
    {i \in imgs : ~(i.name = image /\ i.reg = reg
                    /\ ~(\E a \in arts : a.imageID = i.id /\ a.deletedAt = NULL))}

\* Variant: the NOT EXISTS guard is missing.
ImageDeleteIgnoringLinkedArtifacts(imgs, arts, reg, image) ==
    {i \in imgs : ~(i.name = image /\ i.reg = reg)}

\* The same, guarded by NOT EXISTS (an artifact row of that image).
ImageDeleteByImageNameIfNoLinkedArtifacts(imgs, arts, reg, image) ==
    {i \in imgs : ~(i.name = image /\ i.reg = reg
                    /\ ~(\E a \in arts : a.imageID = i.id))}

(***************************************************************************)
(* Manifest, tag and blob repositories and the file manager: collaborators *)
(* of the deletion service, modelled by their contracts.                   *)
(***************************************************************************)
FindManifestByDigest(mans, reg, image, dgst) ==
    {m \in mans : m.reg = reg /\ m.image = image /\ NewDigest(m.digest) = dgst}

ManifestGet(mans, id) == {m \in mans : m.id = id}

\* The manifests that reference m (its parents in manifest_references).
ReferencedBy(mans, refs, m) ==
    {p \in mans : \E r \in refs : r.parent = p.id /\ r.child = m.id}

ManifestDelete(mans, reg, id) == {m \in mans : ~(m.reg = reg /\ m.id = id)}

\* Reference rows live only as long as both of their manifests do.
RefsOfLiveManifests(refs, mans) ==
    {r \in refs : (\E m \in mans : m.id = r.parent) /\ (\E m \in mans : m.id = r.child)}

DeleteManifestByImageName(mans, reg, image) ==
    {m \in mans : ~(m.reg = reg /\ m.image = image)}

CountByImageName(mans, reg, image) ==
    Cardinality({m \in mans : m.reg = reg /\ m.image = image})

FindTag(tgs, reg, image, name) ==
    {t \in tgs : t.reg = reg /\ t.image = image /\ t.name = name}

DeleteTag(tgs, reg, image, name) ==
    {t \in tgs : ~(t.reg = reg /\ t.image = image /\ t.name = name)}

DeleteTagByManifestID(tgs, reg, manifestID) ==
    {t \in tgs : ~(t.reg = reg /\ t.manifestID = manifestID)}

UnlinkBlobByImageName(links, reg, image) ==
    {l \in links : ~(l.reg = reg /\ l.image = image)}

\* utils.GetFilePath: the storage path of a version; version "" is the
\* path of the whole package.
GetFilePath(packageType, image, version) == [image |-> image, version |-> version]

FileUnderPath(f, reg, path) ==
    /\ f.reg = reg
    /\ f.image = path.image
    /\ (path.version = "" \/ f.version = path.version)

\* FileManager.DeleteFile: delete by path.
DeleteFile(fls, reg, path) == {f \in fls : ~FileUnderPath(f, reg, path)}


(***************************************************************************)
(* Events handed to the event reporters.                                   *)
(***************************************************************************)
Event(kind, reg, image, version, dig, principal) ==
    [kind |-> kind, reg |-> reg, image |-> image, version |-> version,
     digest |-> dig, principal |-> principal]

\* webhook.GetArtifactDeletedPayload + ArtifactEventReporter.ArtifactDeleted
OciArtifactDeleted(principal, reg, image, version, dig) ==
    Event("ArtifactDeleted", reg, image, version, dig, principal)

\* webhook.GetArtifactDeletedPayloadForCommonArtifacts + ArtifactDeleted
CommonArtifactDeleted(principal, reg, image, version) ==
    Event("ArtifactDeletedCommon", reg, image, version, NoDigest, principal)

BuildRegistryIndex(reg) == Event("BuildRegistryIndex", reg, "", "", NoDigest, 0)

BuildPackageIndex(reg, image) == Event("BuildPackageIndex", reg, image, "", NoDigest, 0)

\* Variant: the GO case fires its webhook only for a principal, as the OCI
\* webhook does.
TriggerReindexingNeedsPrincipal(packageType, reg, image, version, principalIDValue) ==
    CASE packageType = "RPM" -> <<BuildRegistryIndex(reg)>>
      [] packageType = "GO" /\ principalIDValue # 0 ->
            <<CommonArtifactDeleted(principalIDValue, reg, image, version),
              BuildPackageIndex(reg, image)>>
      [] packageType = "GO" -> <<BuildPackageIndex(reg, image)>>
      [] OTHER -> <<>>

\* reindexing.Service.TriggerArtifactVersionReindexing: the events it emits.
TriggerArtifactVersionReindexing(packageType, reg, image, version, principalIDValue) ==
    CASE packageType = "RPM" -> <<BuildRegistryIndex(reg)>>
      [] packageType = "GO" ->
            <<CommonArtifactDeleted(principalIDValue, reg, image, version),
              BuildPackageIndex(reg, image)>>
      [] packageType \in {"DOCKER", "HELM", "NPM", "MAVEN", "PYTHON", "GENERIC",
                          "NUGET", "CARGO", "HUGGINGFACE"} -> <<>>
      [] OTHER -> <<>>

\* var principalIDValue int64; if principalID != nil { principalIDValue = *principalID }
PrincipalIDValue(principal) == IF principal = NilPrincipal THEN 0 ELSE principal

(***************************************************************************)
(* Outcome of a transaction: the error it returned, the database after it  *)
(* (the database before it when it was rolled back) and what the closure   *)
(* left in the variables of the enclosing function.                        *)
(***************************************************************************)
TxFailed(db, err, refChecked) ==
    [err |-> err, db |-> db, existingDigest |-> NoDigest, refChecked |-> refChecked]

TxDone(db, dig, refChecked) ==
    [err |-> ErrOK, db |-> db, existingDigest |-> dig, refChecked |-> refChecked]

IsManifestList(m) ==
    m.mediaType = MediaTypeImageIndex \/ m.mediaType = MediaTypeManifestList

\* The condition under which DeleteOCIArtifactVersion consults ReferencedBy.
ChecksReferences(m) ==
    m.mediaType # MediaTypeImageIndex /\ m.mediaType # MediaTypeManifestList

\* Variant: the image row goes while one manifest is left.
DeleteImageIfFewManifests(imgs, mans, reg, image) ==
    IF CountByImageName(mans, reg, image) < 2
    THEN ImageDeleteByImageNameAndRegID(imgs, reg, image)
    ELSE imgs

\* if count < 1 { imageStore.DeleteByImageNameAndRegID }
DeleteImageIfNoManifests(imgs, mans, reg, image) ==
    IF CountByImageName(mans, reg, image) < 1
    THEN ImageDeleteByImageNameAndRegID(imgs, reg, image)
    ELSE imgs

(***************************************************************************)
(* DeleteOCIArtifactVersion, untagged mode: the closure run by tx.WithTx.  *)
(* failAt is the store call that returns an error (0: none does).  The     *)
(* calls after the reference check fail alike, the transaction rolling     *)
(* back, and share one number.                                             *)
(***************************************************************************)
UntaggedDeleteWrites(db, reg, image, dgst, m) ==
    LET mans == ManifestDelete(db.manifests, reg, m.id)
        tgs  == DeleteTagByManifestID(db.tags, reg, m.id)
        arts == ArtifactDeleteByVersionAndImageName(db.artifacts, db.images, image, dgst, reg)
        imgs == DeleteImageIfNoManifests(db.images, mans, reg, image)
    IN  [db EXCEPT !.manifests = mans,
                   !.manifestRefs = RefsOfLiveManifests(db.manifestRefs, mans),
                   !.tags = tgs,
                   !.artifacts = arts,
                   !.images = imgs]

\* The store calls the closure makes on this database: 1 find,
\* 2 ReferencedBy, 3 the writes and the count (manifestStore.Delete,
\* DeleteTagByManifestID, DeleteByVersionAndImageName, CountByImageName,
\* DeleteByImageNameAndRegID).
UntaggedStoreCalls(db, reg, image, version) ==
    LET found == FindManifestByDigest(db.manifests, reg, image, NewDigest(version))
        m     == CHOOSE x \in found : TRUE
    IN  IF found = {} THEN {1}
        ELSE IF ChecksReferences(m) /\ ReferencedBy(db.manifests, db.manifestRefs, m) # {}
             THEN {1, 2}
        ELSE {1, 3} \cup (IF ChecksReferences(m) THEN {2} ELSE {})

UntaggedDeleteTx(db, reg, image, version, failAt) ==
    LET dgst  == NewDigest(version)
        found == FindManifestByDigest(db.manifests, reg, image, dgst)
    IN  IF failAt = 1 THEN TxFailed(db, ErrInternal, FALSE)
        ELSE IF found = {} THEN TxFailed(db, ErrNotFound, FALSE)
        ELSE
          LET m == CHOOSE x \in found : TRUE
              checked == ChecksReferences(m)
          IN  IF checked /\ failAt = 2 THEN TxFailed(db, ErrInternal, TRUE)
              ELSE IF checked /\ ReferencedBy(db.manifests, db.manifestRefs, m) # {}
                   THEN TxFailed(db, ErrConflict, TRUE)
              ELSE IF failAt = 3 THEN TxFailed(db, ErrInternal, checked)
              ELSE TxDone(UntaggedDeleteWrites(db, reg, image, dgst, m), version, checked)

(***************************************************************************)
(* DeleteOCIImage: the closure run by tx.WithTx.                           *)
(***************************************************************************)
\* Variant: the artifact rows of the image are left behind.
OCIImageDeleteKeepsArtifacts(db, reg, image) ==
    LET mans == DeleteManifestByImageName(db.manifests, reg, image)
    IN  [db EXCEPT !.manifests = mans,
                   !.manifestRefs = RefsOfLiveManifests(db.manifestRefs, mans),
                   !.blobLinks = UnlinkBlobByImageName(db.blobLinks, reg, image),
                   !.images = ImageDeleteByImageNameAndRegID(db.images, reg, image)]

OCIImageDeleteWrites(db, reg, image) ==
    LET mans == DeleteManifestByImageName(db.manifests, reg, image)
    IN  [db EXCEPT !.manifests = mans,
                   !.manifestRefs = RefsOfLiveManifests(db.manifestRefs, mans),
                   !.blobLinks = UnlinkBlobByImageName(db.blobLinks, reg, image),
                   !.artifacts = ArtifactDeleteByImageNameAndRegistryID(
                                     db.artifacts, db.images, reg, image),
                   !.images = ImageDeleteByImageNameAndRegID(db.images, reg, image)]

\* failAt = 1: one of its four store calls returns an error.
DeleteOCIImageTx(db, reg, image, failAt) ==
    IF failAt = 1 THEN TxFailed(db, ErrInternal, FALSE)
    ELSE TxDone(OCIImageDeleteWrites(db, reg, image), NoDigest, FALSE)


(***************************************************************************)
(* Calls and their outcomes.                                               *)
(***************************************************************************)
\* Outcome slot after a step that completes no deletion call.
\* Variant: the reindexing service is called whatever the branch returned.
ReindexAlways(err) == 1

\* DeleteArtifactVersionByPackageType returns the branch's error before the
\* call of the reindexing service, and calls it once otherwise.
ReindexCalls(err) == IF err = ErrOK THEN 1 ELSE 0

NoCall == [op |-> "none", err |-> ErrOK, events |-> <<>>, reindexCalls |-> 0, branch |-> ""]

\* What a completed call returned and emitted, and how often it invoked the
\* reindexing service.
Outcome(op, err, events) ==
    [op |-> op, err |-> err, events |-> events, reindexCalls |-> 0, branch |-> ""]

VersionOutcome(op, err, events) ==
    [Outcome(op, err, events) EXCEPT !.reindexCalls = ReindexCalls(err)]

Idle ==
    [pc |-> "idle", reg |-> "", image |-> "", version |-> "", principal |-> NilPrincipal,
     tagFound |-> FALSE, manifestID |-> 0, existingDigest |-> NoDigest]

\* Variant: the webhook does not wait for a digest.
OciWebhookWithoutDigest(principal, reg, image, version, dig) ==
    IF principal # NilPrincipal
    THEN <<OciArtifactDeleted(principal, reg, image, version, dig)>>
    ELSE <<>>

\* if principalID != nil && existingDigest != "" { ... ArtifactDeleted(ctx, &payload) }
OciWebhook(principal, reg, image, version, dig) ==
    IF principal # NilPrincipal /\ dig # NoDigest
    THEN <<OciArtifactDeleted(principal, reg, image, version, dig)>>
    ELSE <<>>

\* DeleteArtifactVersionByPackageType after the package-specific branch has
\* returned err: on error nothing more happens, else reindexing is triggered.
AfterBranch(err, branchEvents, reg, image, version, principal) ==
    IF ReindexCalls(err) = 0 THEN <<>>
    ELSE branchEvents \o TriggerArtifactVersionReindexing(
             PackageTypeOf(reg), reg, image, version, PrincipalIDValue(principal))

SetDB(db) ==
    /\ images' = db.images
    /\ artifacts' = db.artifacts
    /\ manifests' = db.manifests
    /\ manifestRefs' = db.manifestRefs
    /\ tags' = db.tags
    /\ blobLinks' = db.blobLinks
    /\ files' = db.files

(***************************************************************************)
(* Pushes: how manifests, tags and their image and artifact rows come to   *)
(* exist.                                                                  *)
(***************************************************************************)
PushManifest(reg, image, dig, mediaType, children, blob) ==
    LET id    == nextManifestID
        fresh == ImageIDsByName(images, reg, image) = {}
        imgs  == ImageCreateOrUpdate(images, nextImageID, reg, image)
        imgID == CHOOSE i \in ImageIDsByName(imgs, reg, image) : TRUE
    IN  /\ nextManifestID <= MaxManifestID
        /\ FindManifestByDigest(manifests, reg, image, NewDigest(dig)) = {}
        /\ children \subseteq {m.id : m \in {x \in manifests : x.reg = reg /\ x.image = image}}
        /\ children # {} => mediaType \in {MediaTypeImageIndex, MediaTypeManifestList}
        /\ manifests' = manifests \cup {ManifestRow(id, reg, image, dig, mediaType)}
        /\ nextManifestID' = id + 1
        /\ manifestRefs' = manifestRefs \cup {[parent |-> id, child |-> c] : c \in children}
        /\ images' = imgs
        /\ nextImageID' = IF fresh THEN nextImageID + 1 ELSE nextImageID
        /\ artifacts' = IF untagged
                        THEN ArtifactCreateOrUpdate(artifacts, imgID, NewDigest(dig))
                        ELSE artifacts
        /\ blobs' = blobs \cup {blob}
        /\ blobLinks' = blobLinks \cup {[reg |-> reg, image |-> image, blob |-> blob]}
        /\ last' = NoCall
        /\ UNCHANGED <<clock, registries, snapshot, untagged, tags, files, calls>>

PushTag(reg, image, name, manifestID) ==
    LET imgIDs == ImageIDsByName(images, reg, image)
    IN  /\ \E m \in manifests : m.id = manifestID /\ m.reg = reg /\ m.image = image
        /\ imgIDs # {}
        /\ tags' = DeleteTag(tags, reg, image, name) \cup {TagRow(reg, image, name, manifestID)}
        /\ artifacts' = IF untagged THEN artifacts
                        ELSE ArtifactCreateOrUpdate(artifacts, CHOOSE i \in imgIDs : TRUE, name)
        /\ last' = NoCall
        /\ UNCHANGED <<clock, registries, snapshot, untagged, images, nextImageID, manifests, nextManifestID,
                       manifestRefs, blobs, blobLinks, files, calls>>

(***************************************************************************)
(* DeleteArtifactVersionByPackageType on a DOCKER / HELM registry,         *)
(* untagged mode: DeleteOCIArtifactVersion runs one transaction, fires the *)
(* webhook, and reindexing follows.                                        *)
(***************************************************************************)
DeleteVersionUntagged(reg, image, version, principal, failAt) ==
    LET tx     == UntaggedDeleteTx(DB, reg, image, version, failAt)
        hook   == OciWebhook(principal, reg, image, version, tx.existingDigest)
        events == AfterBranch(tx.err, hook, reg, image, version, principal)
    IN  /\ untagged
        /\ failAt \in {0} \cup UntaggedStoreCalls(DB, reg, image, version)
        /\ SetDB(tx.db)
        /\ last' = VersionOutcome("DeleteOCIArtifactVersion", tx.err, events)
        /\ UNCHANGED <<clock, registries, snapshot, untagged, nextImageID, nextManifestID, blobs, calls>>

(***************************************************************************)
(* The same in tagged mode: no transaction.  FindTag, manifestStore.Get    *)
(* and DeleteTag are separate statements, and statements of other requests *)
(* run between them.                                                       *)
(***************************************************************************)
TaggedFindTag(p, reg, image, version, principal) ==
    LET found == FindTag(tags, reg, image, version)
    IN  /\ ~untagged
        /\ calls[p].pc = "idle"
        /\ calls' = [calls EXCEPT ![p] =
               [pc |-> "tagRead", reg |-> reg, image |-> image, version |-> version,
                principal |-> principal, tagFound |-> found # {},
                manifestID |-> IF found = {} THEN 0 ELSE (CHOOSE t \in found : TRUE).manifestID,
                existingDigest |-> NoDigest]]
        /\ last' = NoCall
        /\ UNCHANGED <<clock, registries, snapshot, untagged, images, nextImageID, artifacts, manifests, nextManifestID,
                       manifestRefs, tags, blobs, blobLinks, files>>

TaggedGetManifest(p) ==
    LET c     == calls[p]
        found == IF c.tagFound THEN ManifestGet(manifests, c.manifestID) ELSE {}
    IN  /\ c.pc = "tagRead"
        /\ calls' = [calls EXCEPT ![p] =
               [c EXCEPT !.pc = "digestRead",
                         !.existingDigest =
                             IF found = {} THEN NoDigest ELSE (CHOOSE m \in found : TRUE).digest]]
        /\ last' = NoCall
        /\ UNCHANGED <<clock, registries, snapshot, untagged, images, nextImageID, artifacts, manifests, nextManifestID,
                       manifestRefs, tags, blobs, blobLinks, files>>

\* Variant: every tag of the image goes with the named one.
TaggedDeleteAllTags(db, reg, image, version, failAt) ==
    IF failAt = 1 THEN TxFailed(db, ErrInternal, FALSE)
    ELSE TxDone([db EXCEPT !.tags = {t \in db.tags : ~(t.reg = reg /\ t.image = image)}],
                NoDigest, FALSE)

\* The tagged branch's write: tagStore.DeleteTag, or its error.
TaggedDeleteWrites(db, reg, image, version, failAt) ==
    IF failAt = 1 THEN TxFailed(db, ErrInternal, FALSE)
    ELSE TxDone([db EXCEPT !.tags = DeleteTag(db.tags, reg, image, version)], NoDigest, FALSE)

TaggedDeleteTag(p, failAt) ==
    LET c      == calls[p]
        w      == TaggedDeleteWrites(DB, c.reg, c.image, c.version, failAt)
        hook   == OciWebhook(c.principal, c.reg, c.image, c.version, c.existingDigest)
        events == AfterBranch(w.err, hook, c.reg, c.image, c.version, c.principal)
    IN  /\ c.pc = "digestRead"
        /\ SetDB(w.db)
        /\ calls' = [calls EXCEPT ![p] = Idle]
        /\ last' = VersionOutcome("DeleteOCIArtifactVersion", w.err, events)
        /\ UNCHANGED <<clock, registries, snapshot, untagged, nextImageID, nextManifestID, blobs>>

\* A request whose statements run back to back, while another request may
\* be between its own statements.
DeleteVersionTaggedWhole(reg, image, version, principal, failAt) ==
    LET tag    == FindTag(tags, reg, image, version)
        man    == IF tag = {} THEN {}
                  ELSE ManifestGet(manifests, (CHOOSE t \in tag : TRUE).manifestID)
        dig    == IF man = {} THEN NoDigest ELSE (CHOOSE m \in man : TRUE).digest
        w      == TaggedDeleteWrites(DB, reg, image, version, failAt)
        hook   == OciWebhook(principal, reg, image, version, dig)
        events == AfterBranch(w.err, hook, reg, image, version, principal)
    IN  /\ ~untagged
        /\ SetDB(w.db)
        /\ last' = VersionOutcome("DeleteOCIArtifactVersion", w.err, events)
        /\ UNCHANGED <<clock, registries, snapshot, untagged, nextImageID, nextManifestID, blobs, calls>>

(***************************************************************************)
(* DeleteImageByPackageType on a DOCKER / HELM registry: DeleteOCIImage.   *)
(***************************************************************************)
DeleteOCIImage(reg, image, failAt) ==
    LET tx == DeleteOCIImageTx(DB, reg, image, failAt)
    IN  /\ SetDB(tx.db)
        /\ last' = Outcome("DeleteOCIImage", tx.err, <<>>)
        /\ UNCHANGED <<clock, registries, snapshot, untagged, nextImageID, nextManifestID, blobs, calls>>

(***************************************************************************)
(* Generic (file-backed) packages.                                         *)
(***************************************************************************)
\* An upload: the image row, the artifact row of the version and its file.
UploadGeneric(reg, image, version) ==
    LET fresh == ImageIDsByName(images, reg, image) = {}
        imgs  == ImageCreateOrUpdate(images, nextImageID, reg, image)
        imgID == CHOOSE i \in ImageIDsByName(imgs, reg, image) : TRUE
    IN  /\ fresh => nextImageID <= MaxImageID
        /\ images' = imgs
        /\ nextImageID' = IF fresh THEN nextImageID + 1 ELSE nextImageID
        /\ artifacts' = ArtifactCreateOrUpdate(artifacts, imgID, version)
        /\ files' = files \cup {[reg |-> reg, image |-> image, version |-> version]}
        /\ last' = NoCall
        /\ UNCHANGED <<clock, registries, snapshot, untagged, manifests, nextManifestID, manifestRefs, tags,
                       blobs, blobLinks, calls>>

\* DeleteGenericArtifact: the closure run by tx.WithTx.  failAt: 1 DeleteFile,
\* 2 DeleteByVersionAndImageName or DeleteByImageNameIfNoLinkedArtifacts.
GenericDeleteWrites(db, reg, image, version) ==
    LET fls  == DeleteFile(db.files, reg, GetFilePath(PackageTypeOf(reg), image, version))
        arts == ArtifactDeleteByVersionAndImageName(db.artifacts, db.images, image, version, reg)
        imgs == ImageDeleteByImageNameIfNoLinkedArtifacts(db.images, arts, reg, image)
    IN  [db EXCEPT !.files = fls, !.artifacts = arts, !.images = imgs]

DeleteGenericArtifactTx(db, reg, image, version, failAt) ==
    IF failAt = 1 THEN TxFailed(db, ErrStorage, FALSE)
    ELSE IF failAt = 2 THEN TxFailed(db, ErrInternal, FALSE)
    ELSE TxDone(GenericDeleteWrites(db, reg, image, version), NoDigest, FALSE)

\* Service.DeleteGenericArtifact called on its own.
DeleteGenericArtifact(reg, image, version, failAt) ==
    LET tx == DeleteGenericArtifactTx(DB, reg, image, version, failAt)
    IN  /\ SetDB(tx.db)
        /\ last' = Outcome("DeleteGenericArtifact", tx.err, <<>>)
        /\ UNCHANGED <<clock, registries, snapshot, untagged, nextImageID, nextManifestID, blobs, calls>>

\* DeleteArtifactVersionByPackageType on a file-backed registry:
\* DeleteGenericArtifact, then reindexing.
DeleteVersionGeneric(reg, image, version, principal, failAt) ==
    LET tx     == DeleteGenericArtifactTx(DB, reg, image, version, failAt)
        events == AfterBranch(tx.err, <<>>, reg, image, version, principal)
    IN  /\ SetDB(tx.db)
        /\ last' = VersionOutcome("DeleteArtifactVersionByPackageType", tx.err, events)
        /\ UNCHANGED <<clock, registries, snapshot, untagged, nextImageID, nextManifestID, blobs, calls>>

\* Variant: the controller leaves the GO webhook out.
ControllerEventsWithoutWebhook(packageType, reg, image, version, principal) ==
    CASE packageType = "RPM" -> <<BuildRegistryIndex(reg)>>
      [] packageType = "GO" -> <<BuildPackageIndex(reg, image)>>
      [] OTHER -> <<>>

\* The events the controller emits itself after deleteVersion succeeded.
ControllerEvents(packageType, reg, image, version, principal) ==
    CASE packageType = "RPM" -> <<BuildRegistryIndex(reg)>>
      [] packageType = "GO" ->
            <<CommonArtifactDeleted(principal, reg, image, version),
              BuildPackageIndex(reg, image)>>
      [] OTHER -> <<>>

\* APIController.DeleteArtifactVersion on a file-backed registry: the image
\* and the version are looked up first, each miss answering 404.
ControllerDeleteVersion(reg, image, version, principal, failAt) ==
    LET imageInfo == ImageGetByName(images, reg, image)
        found     == IF imageInfo = {} THEN {}
                     ELSE ArtifactGetByName(artifacts, (CHOOSE i \in imageInfo : TRUE).id, version)
        tx        == IF found = {} THEN TxFailed(DB, ErrNotFound, FALSE)
                     ELSE DeleteGenericArtifactTx(DB, reg, image, version, failAt)
        events    == IF tx.err = ErrOK
                     THEN ControllerEvents(PackageTypeOf(reg), reg, image, version, principal)
                     ELSE <<>>
    IN  /\ principal # NilPrincipal
        /\ found = {} => failAt = 0
        /\ SetDB(tx.db)
        /\ last' = Outcome("APIController.DeleteArtifactVersion", tx.err, events)
        /\ UNCHANGED <<clock, registries, snapshot, untagged, nextImageID, nextManifestID, blobs, calls>>

(***************************************************************************)
(* APIController.DeleteArtifactVersion on a DOCKER / HELM registry:        *)
(* deleteOciVersionWithAudit reads the digest, has the deletion service    *)
(* delete, and fires the webhook itself.                                   *)
(***************************************************************************)
\* existingDigest: the version string in untagged mode, getTagDigest else.
ControllerExistingDigest(ut, tgs, mans, reg, image, version) ==
    IF ut THEN version
    ELSE LET tag == FindTag(tgs, reg, image, version)
             man == IF tag = {} THEN {}
                    ELSE ManifestGet(mans, (CHOOSE t \in tag : TRUE).manifestID)
         IN  IF man = {} THEN NoDigest ELSE (CHOOSE m \in man : TRUE).digest

\* DeletionService.DeleteOCIArtifact: the deletion of the OCI branch without
\* its webhook.
DeleteOCIArtifact(db, ut, reg, image, version, failAt) ==
    IF ut THEN UntaggedDeleteTx(db, reg, image, version, failAt)
    ELSE TaggedDeleteWrites(db, reg, image, version, failAt)

\* if existingDigest != "" { ... ArtifactDeleted(ctx, &payload) }
ControllerOciWebhook(principal, reg, image, version, dig) ==
    IF dig # NoDigest
    THEN <<OciArtifactDeleted(principal, reg, image, version, dig)>>
    ELSE <<>>

ControllerDeleteOciVersion(reg, image, version, principal, failAt) ==
    LET imageInfo == ImageGetByName(images, reg, image)
        dig       == ControllerExistingDigest(untagged, tags, manifests, reg, image, version)
        tx        == IF imageInfo = {} THEN TxFailed(DB, ErrNotFound, FALSE)
                     ELSE DeleteOCIArtifact(DB, untagged, reg, image, version, failAt)
        events    == IF tx.err = ErrOK
                     THEN ControllerOciWebhook(principal, reg, image, version, dig)
                     ELSE <<>>
    IN  /\ principal # NilPrincipal
        /\ PackageTypeOf(reg) \in {"DOCKER", "HELM"}
        /\ imageInfo = {} => failAt = 0
        /\ untagged => failAt \in {0} \cup UntaggedStoreCalls(DB, reg, image, version)
        /\ ~untagged => failAt \in 0..1
        /\ SetDB(tx.db)
        /\ last' = Outcome("APIController.DeleteArtifactVersion", tx.err, events)
        /\ UNCHANGED <<clock, registries, snapshot, untagged, nextImageID, nextManifestID, blobs, calls>>

(***************************************************************************)
(* APIController.DeleteArtifactVersion: the response made from what the    *)
(* branch returned.  Only errors.Is(err, store.ErrResourceNotFound) is     *)
(* told apart; every other error goes to                                   *)
(* throwDeleteArtifactVersion500Error, whose body is err.Error().          *)
(***************************************************************************)
StatusOK == "200 OK"
StatusNotFound == "404 Not Found"
StatusConflict == "409 Conflict"
StatusInternalServerError == "500 Internal Server Error"

\* err.Error(): the text of the internal error.
ErrorText(err) == <<"error", err>>

GenericErrorText == <<"internal server error">>

DeleteArtifactVersionResponse(err) ==
    IF err = ErrOK THEN [status |-> StatusOK, message |-> <<"success">>]
    ELSE IF err = ErrNotFound
         THEN [status |-> StatusNotFound, message |-> <<"artifact version not found">>]
    ELSE [status |-> StatusInternalServerError, message |-> ErrorText(err)]

(***************************************************************************)
(* Side channels.  The reporters (reindexing, webhook) return nothing, so  *)
(* whatever happens inside them the caller goes on; AuditService.Log       *)
(* returns an error, which the controller logs.  channelFails / auditFails *)
(* say that the channel did not get its message through.                   *)
(***************************************************************************)
\* Variant: a failed reporter makes the call fail.
ReturnAfterFailedSideChannels(err, channelFails) ==
    IF channelFails THEN ErrInternal ELSE err

\* s.reindexingService.TriggerArtifactVersionReindexing(...); return nil
ReturnAfterSideChannels(err, channelFails) == err

\* if auditErr != nil { log } ; return 200
ReturnAfterAudit(err, auditFails) == err

SideOutcome(op, err, events, committed, channelFails, auditFails, auditCalls, reg, image, version) ==
    [op |-> op, err |-> err, events |-> events,
     reindexCalls |-> IF committed /\ op = "DeleteArtifactVersionByPackageType" THEN 1 ELSE 0,
     branch |-> "", committed |-> committed, channelFails |-> channelFails,
     auditFails |-> auditFails, auditCalls |-> auditCalls,
     reg |-> reg, image |-> image, version |-> version,
     response |-> DeleteArtifactVersionResponse(err)]

\* DeleteArtifactVersionByPackageType on a file-backed registry with a
\* reindexing service and reporters that may fail.
DeleteVersionSideChannels(reg, image, version, principal, failAt, channelFails) ==
    LET tx        == DeleteGenericArtifactTx(DB, reg, image, version, failAt)
        committed == tx.err = ErrOK
        events    == AfterBranch(tx.err, <<>>, reg, image, version, principal)
        err       == IF committed THEN ReturnAfterSideChannels(tx.err, channelFails)
                     ELSE tx.err
    IN  /\ ~committed => ~channelFails
        /\ SetDB(tx.db)
        /\ last' = SideOutcome("DeleteArtifactVersionByPackageType", err, events, committed,
                               channelFails, FALSE, 0, reg, image, version)
        /\ UNCHANGED <<clock, registries, snapshot, untagged, nextImageID, nextManifestID, blobs, calls>>

\* APIController.DeleteArtifactVersion on a file-backed registry, with its
\* reporters and the audit service.
ControllerDeleteVersionSideChannels(reg, image, version, principal, failAt, channelFails, auditFails) ==
    LET imageInfo == ImageGetByName(images, reg, image)
        found     == IF imageInfo = {} THEN {}
                     ELSE ArtifactGetByName(artifacts, (CHOOSE i \in imageInfo : TRUE).id, version)
        tx        == IF found = {} THEN TxFailed(DB, ErrNotFound, FALSE)
                     ELSE DeleteGenericArtifactTx(DB, reg, image, version, failAt)
        committed == tx.err = ErrOK
        events    == IF committed
                     THEN ControllerEvents(PackageTypeOf(reg), reg, image, version, principal)
                     ELSE <<>>
        err       == IF committed
                     THEN ReturnAfterAudit(ReturnAfterSideChannels(tx.err, channelFails),
                                           auditFails)
                     ELSE tx.err
    IN  /\ principal # NilPrincipal
        /\ found = {} => failAt = 0
        /\ ~committed => (~channelFails /\ ~auditFails)
        /\ SetDB(tx.db)
        /\ last' = SideOutcome("APIController.DeleteArtifactVersion", err, events, committed,
                               channelFails, auditFails, IF committed THEN 1 ELSE 0,
                               reg, image, version)
        /\ UNCHANGED <<clock, registries, snapshot, untagged, nextImageID, nextManifestID, blobs, calls>>

(***************************************************************************)
(* The audit dual write: the audit log and the udp_events table.           *)
(* auditFails: auditService.Log returns an error; udpFails: the insert     *)
(* into udp_events returns an error.                                       *)
(***************************************************************************)
AuditActions == {"created", "updated", "deleted", "bypassed"}

\* switch action { case audit.ActionCreated: ... default: return string(action) }
convertAuditActionToUDP(action) ==
    CASE action = "created" -> "ActionRegistryCreated"
      [] action = "updated" -> "ActionRegistryUpdated"
      [] action = "deleted" -> "ActionRegistryDeleted"
      [] OTHER -> action

OpRegistryAuditLog == "RegistryAuditService.Log"
OpLogWithUDPEvent == "LogWithUDPEvent"
OpInsertUDPAuditEvent == "InsertUDPAuditEvent"

AuditOps == {OpRegistryAuditLog, OpLogWithUDPEvent, OpInsertUDPAuditEvent}

WarnAuditLog == "failed to insert audit log"
WarnUDPInsert == "failed to insert audit event into UDP events table"

\* What one call did: the error it returned (ErrOK for the functions that
\* return nothing), the legs it called, and the warnings it logged.
AuditOutcome(op, err, action, udpAction, reg, principal, auditCalled, auditFails, udpStore, udpAttempted, udpFails, logged) ==
    [op |-> op, err |-> err, events |-> <<>>, reindexCalls |-> 0, branch |-> "",
     action |-> action, udpAction |-> udpAction, reg |-> reg, principal |-> principal,
     auditCalled |-> auditCalled, auditFails |-> auditFails, udpStore |-> udpStore,
     udpAttempted |-> udpAttempted, udpFails |-> udpFails, logged |-> logged]

\* RegistryAuditService.Log: auditService.Log, a warning when it failed,
\* then udpService.InsertEvent in every case; nothing is returned.
RegistryAuditLog(action, reg, principal, auditFails, udpFails) ==
    /\ last' = AuditOutcome(OpRegistryAuditLog, ErrOK, action, convertAuditActionToUDP(action),
                            reg, principal, TRUE, auditFails, TRUE, TRUE, udpFails,
                            IF auditFails THEN {WarnAuditLog} ELSE {})
    /\ UNCHANGED <<clock, registries, snapshot, untagged, images, nextImageID, artifacts,
                   manifests, nextManifestID, manifestRefs, tags, blobs, blobLinks, files, calls>>

\* LogWithUDPEvent: auditService.Log; if auditErr != nil { return auditErr };
\* if udpEventStore != nil { insertUDPEvent(...) }; return nil
LogWithUDPEvent(action, reg, principal, storeIsNil, auditFails, udpFails) ==
    LET attempted == ~auditFails /\ ~storeIsNil
    IN  /\ last' = AuditOutcome(OpLogWithUDPEvent, IF auditFails THEN ErrInternal ELSE ErrOK,
                                action, action, reg, principal, TRUE, auditFails, ~storeIsNil,
                                attempted, udpFails,
                                IF attempted /\ udpFails THEN {WarnUDPInsert} ELSE {})
        /\ storeIsNil => ~udpFails
        /\ UNCHANGED <<clock, registries, snapshot, untagged, images, nextImageID, artifacts,
                       manifests, nextManifestID, manifestRefs, tags, blobs, blobLinks, files,
                       calls>>

\* InsertUDPAuditEvent: skipped without an accessor; else the INSERT, and a
\* warning when it failed; nothing is returned.
InsertUDPAuditEvent(udpAction, reg, principal, dbIsNil, udpFails) ==
    /\ last' = AuditOutcome(OpInsertUDPAuditEvent, ErrOK, udpAction, udpAction, reg, principal,
                            FALSE, FALSE, ~dbIsNil, ~dbIsNil, udpFails,
                            IF ~dbIsNil /\ udpFails THEN {WarnUDPInsert} ELSE {})
    /\ dbIsNil => ~udpFails
    /\ UNCHANGED <<clock, registries, snapshot, untagged, images, nextImageID, artifacts,
                   manifests, nextManifestID, manifestRefs, tags, blobs, blobLinks, files, calls>>

(***************************************************************************)
(* DeleteArtifactVersionByPackageType on a registry of a type the switch   *)
(* does not name: the image is looked up and the package wrapper deletes.  *)
(* wrapperErr is what the wrapper returns; the core writes no row.         *)
(***************************************************************************)
WrapperResults == {ErrOK, ErrInternal}

UnknownVersionErr(imgs, reg, image, wrapperErr) ==
    IF ImageGetByName(imgs, reg, image) = {} THEN ErrNotFound ELSE wrapperErr

DeleteVersionUnknown(reg, image, version, principal, wrapperErr) ==
    LET err    == UnknownVersionErr(images, reg, image, wrapperErr)
        events == AfterBranch(err, <<>>, reg, image, version, principal)
    IN  /\ PackageTypeOf(reg) \notin
              {"DOCKER", "HELM", "NPM", "MAVEN", "PYTHON", "GENERIC", "NUGET", "RPM", "GO"}
        /\ last' = VersionOutcome("DeleteArtifactVersionByPackageType", err, events)
        /\ UNCHANGED <<clock, registries, snapshot, untagged, images, nextImageID, artifacts, manifests, nextManifestID,
                       manifestRefs, tags, blobs, blobLinks, files, calls>>

(***************************************************************************)
(* DeleteImageByPackageType: removes a whole package.                      *)
(***************************************************************************)
\* DeleteGenericImage: the closure run by tx.WithTx, on the path of the
\* whole package.
GenericImageDeleteWrites(db, reg, image) ==
    LET fls  == DeleteFile(db.files, reg, GetFilePath(PackageTypeOf(reg), image, ""))
        arts == ArtifactDeleteByImageNameAndRegistryID(db.artifacts, db.images, reg, image)
        imgs == ImageDeleteByImageNameAndRegID(db.images, reg, image)
    IN  [db EXCEPT !.files = fls, !.artifacts = arts, !.images = imgs]

\* failAt: 1 DeleteFile, 2 one of the two row deletions.
DeleteGenericImageTx(db, reg, image, failAt) ==
    IF failAt = 1 THEN TxFailed(db, ErrStorage, FALSE)
    ELSE IF failAt = 2 THEN TxFailed(db, ErrInternal, FALSE)
    ELSE TxDone(GenericImageDeleteWrites(db, reg, image), NoDigest, FALSE)

\* packageWrapper.DeleteArtifact: the core hands the request over and
\* returns what the wrapper returns.
WrapperDeleteArtifact(db, wrapperErr) ==
    IF wrapperErr = ErrOK THEN TxDone(db, NoDigest, FALSE)
    ELSE TxFailed(db, wrapperErr, FALSE)

\* Variant: RPM packages are deleted like the other file-backed ones.
ImageDispatchRpmAsGeneric(db, packageType, reg, image, failAt, wrapperErr) ==
    CASE packageType \in {"DOCKER", "HELM"} ->
            [branch |-> "DeleteOCIImage", tx |-> DeleteOCIImageTx(db, reg, image, failAt)]
      [] packageType \in {"GENERIC", "MAVEN", "PYTHON", "NPM", "NUGET", "GO", "RPM"} ->
            [branch |-> "DeleteGenericImage",
             tx |-> DeleteGenericImageTx(db, reg, image, failAt)]
      [] packageType = "HUGGINGFACE" ->
            [branch |-> "unsupported", tx |-> TxFailed(db, ErrUnsupported, FALSE)]
      [] OTHER ->
            [branch |-> "PackageWrapper.DeleteArtifact",
             tx |-> WrapperDeleteArtifact(db, wrapperErr)]

\* The switch of DeleteImageByPackageType: the branch taken and its result.
ImageDispatch(db, packageType, reg, image, failAt, wrapperErr) ==
    CASE packageType \in {"DOCKER", "HELM"} ->
            [branch |-> "DeleteOCIImage", tx |-> DeleteOCIImageTx(db, reg, image, failAt)]
      [] packageType \in {"GENERIC", "MAVEN", "PYTHON", "NPM", "NUGET", "GO"} ->
            [branch |-> "DeleteGenericImage",
             tx |-> DeleteGenericImageTx(db, reg, image, failAt)]
      [] packageType = "RPM" ->
            [branch |-> "unsupported", tx |-> TxFailed(db, ErrUnsupported, FALSE)]
      [] packageType = "HUGGINGFACE" ->
            [branch |-> "unsupported", tx |-> TxFailed(db, ErrUnsupported, FALSE)]
      [] OTHER ->
            [branch |-> "PackageWrapper.DeleteArtifact",
             tx |-> WrapperDeleteArtifact(db, wrapperErr)]

\* The failure points a branch has: the OCI transaction one, the generic
\* transaction two, the wrapper its own result.
ImageDispatchFailures(packageType) ==
    CASE packageType \in {"DOCKER", "HELM"} -> {<<0, ErrOK>>, <<1, ErrOK>>}
      [] packageType \in {"GENERIC", "MAVEN", "PYTHON", "NPM", "NUGET", "GO"} ->
            {<<0, ErrOK>>, <<1, ErrOK>>, <<2, ErrOK>>}
      [] packageType \in {"RPM", "HUGGINGFACE"} -> {<<0, ErrOK>>}
      [] OTHER -> {<<0, w>> : w \in WrapperResults}

DeleteImageByPackageType(reg, image, failAt, wrapperErr) ==
    LET d == ImageDispatch(DB, PackageTypeOf(reg), reg, image, failAt, wrapperErr)
    IN  /\ <<failAt, wrapperErr>> \in ImageDispatchFailures(PackageTypeOf(reg))
        /\ SetDB(d.tx.db)
        /\ last' = [Outcome("DeleteImageByPackageType", d.tx.err, <<>>)
                       EXCEPT !.branch = d.branch]
        /\ UNCHANGED <<clock, registries, snapshot, untagged, nextImageID, nextManifestID, blobs, calls>>

(***************************************************************************)
(* The cascades statement by statement.  tx.WithTx opens a transaction,    *)
(* runs the closure and commits when it returns nil, rolls back when it    *)
(* returns an error.  A statement sees the committed rows without those    *)
(* the transaction has deleted; its deletions are held in the call record  *)
(* until the commit.                                                       *)
(***************************************************************************)
EmptyDB ==
    [images |-> {}, artifacts |-> {}, manifests |-> {}, manifestRefs |-> {},
     tags |-> {}, blobLinks |-> {}, files |-> {}]

DBMinus(a, b) ==
    [images |-> a.images \ b.images, artifacts |-> a.artifacts \ b.artifacts,
     manifests |-> a.manifests \ b.manifests,
     manifestRefs |-> a.manifestRefs \ b.manifestRefs,
     tags |-> a.tags \ b.tags, blobLinks |-> a.blobLinks \ b.blobLinks,
     files |-> a.files \ b.files]

DBUnion(a, b) ==
    [images |-> a.images \cup b.images, artifacts |-> a.artifacts \cup b.artifacts,
     manifests |-> a.manifests \cup b.manifests,
     manifestRefs |-> a.manifestRefs \cup b.manifestRefs,
     tags |-> a.tags \cup b.tags, blobLinks |-> a.blobLinks \cup b.blobLinks,
     files |-> a.files \cup b.files]

OpTxOCIImage == "Service.DeleteOCIImage"
OpTxUntagged == "Service.DeleteOCIArtifactVersion"
OpTxGenericImage == "Service.DeleteGenericImage"
OpTxGenericArtifact == "Service.DeleteGenericArtifact"

TxOps == {OpTxOCIImage, OpTxUntagged, OpTxGenericImage, OpTxGenericArtifact}

NoManifest == ManifestRow(0, "", "", NoDigest, "")

\* What a statement did: its error, the rows it leaves, the statement the
\* closure goes to next (0: the closure returns nil) and the locals it set.
Stmt(name, err, db, next, manifest, count) ==
    [name |-> name, err |-> err, db |-> db, next |-> next, manifest |-> manifest,
     count |-> count]

\* DeleteOCIImage, service.go 319-341.
OCIImageStatement(c, w) ==
    CASE c.step = 1 ->
           LET mans == DeleteManifestByImageName(w.manifests, c.reg, c.image)
           IN  Stmt("DeleteManifestByImageName", ErrOK,
                    [w EXCEPT !.manifests = mans,
                              !.manifestRefs = RefsOfLiveManifests(w.manifestRefs, mans)],
                    2, c.manifest, c.count)
      [] c.step = 2 ->
           Stmt("UnlinkBlobByImageName", ErrOK,
                [w EXCEPT !.blobLinks = UnlinkBlobByImageName(w.blobLinks, c.reg, c.image)],
                3, c.manifest, c.count)
      [] c.step = 3 ->
           Stmt("DeleteByImageNameAndRegistryID", ErrOK,
                [w EXCEPT !.artifacts = ArtifactDeleteByImageNameAndRegistryID(
                                            w.artifacts, w.images, c.reg, c.image)],
                4, c.manifest, c.count)
      [] OTHER ->
           Stmt("DeleteByImageNameAndRegID", ErrOK,
                [w EXCEPT !.images = ImageDeleteByImageNameAndRegID(w.images, c.reg, c.image)],
                0, c.manifest, c.count)

\* Variant: the artifact row is deleted first, the manifest last.
UntaggedCallsArtifactFirst ==
    <<"FindManifestByDigest", "ReferencedBy", "DeleteByVersionAndImageName",
      "DeleteTagByManifestID", "Delete", "CountByImageName", "DeleteByImageNameAndRegID">>

\* The store calls of the untagged closure in the order of the source:
\* service.go 197, 205, 219, 224, 228, 233, 238.
UntaggedCalls ==
    <<"FindManifestByDigest", "ReferencedBy", "Delete", "DeleteTagByManifestID",
      "DeleteByVersionAndImageName", "CountByImageName", "DeleteByImageNameAndRegID">>

\* DeleteOCIArtifactVersion, untagged mode, service.go 194-245.
UntaggedStatement(c, w) ==
    LET name == UntaggedCalls[c.step]
        nxt  == IF c.step = Len(UntaggedCalls) THEN 0 ELSE c.step + 1
    IN
    CASE name = "FindManifestByDigest" ->
           LET found == FindManifestByDigest(w.manifests, c.reg, c.image, NewDigest(c.version))
               m     == CHOOSE x \in found : TRUE
           IN  IF found = {}
               THEN Stmt(name, ErrNotFound, w, 0, c.manifest, c.count)
               ELSE Stmt(name, ErrOK, w, IF ChecksReferences(m) THEN nxt ELSE nxt + 1,
                         m, c.count)
      [] name = "ReferencedBy" ->
           IF ReferencedBy(w.manifests, w.manifestRefs, c.manifest) # {}
           THEN Stmt(name, ErrConflict, w, 0, c.manifest, c.count)
           ELSE Stmt(name, ErrOK, w, nxt, c.manifest, c.count)
      [] name = "Delete" ->
           LET mans == ManifestDelete(w.manifests, c.reg, c.manifest.id)
           IN  Stmt(name, ErrOK,
                    [w EXCEPT !.manifests = mans,
                              !.manifestRefs = RefsOfLiveManifests(w.manifestRefs, mans)],
                    nxt, c.manifest, c.count)
      [] name = "DeleteTagByManifestID" ->
           Stmt(name, ErrOK,
                [w EXCEPT !.tags = DeleteTagByManifestID(w.tags, c.reg, c.manifest.id)],
                nxt, c.manifest, c.count)
      [] name = "DeleteByVersionAndImageName" ->
           Stmt(name, ErrOK,
                [w EXCEPT !.artifacts = ArtifactDeleteByVersionAndImageName(
                                            w.artifacts, w.images, c.image,
                                            NewDigest(c.version), c.reg)],
                nxt, c.manifest, c.count)
      [] name = "CountByImageName" ->
           LET count == CountByImageName(w.manifests, c.reg, c.image)
           IN  Stmt(name, ErrOK, w, IF count < 1 THEN nxt ELSE 0, c.manifest, count)
      [] OTHER ->
           Stmt(name, ErrOK,
                [w EXCEPT !.images = ImageDeleteByImageNameAndRegID(w.images, c.reg, c.image)],
                0, c.manifest, c.count)

\* DeleteGenericImage, service.go 359-379.
GenericImageStatement(c, w) ==
    CASE c.step = 1 ->
           Stmt("DeleteFile", ErrOK,
                [w EXCEPT !.files = DeleteFile(w.files, c.reg,
                                        GetFilePath(PackageTypeOf(c.reg), c.image, ""))],
                2, c.manifest, c.count)
      [] c.step = 2 ->
           Stmt("DeleteByImageNameAndRegistryID", ErrOK,
                [w EXCEPT !.artifacts = ArtifactDeleteByImageNameAndRegistryID(
                                            w.artifacts, w.images, c.reg, c.image)],
                3, c.manifest, c.count)
      [] OTHER ->
           Stmt("DeleteByImageNameAndRegID", ErrOK,
                [w EXCEPT !.images = ImageDeleteByImageNameAndRegID(w.images, c.reg, c.image)],
                0, c.manifest, c.count)

\* DeleteGenericArtifact, service.go 288-308.
GenericArtifactStatement(c, w) ==
    CASE c.step = 1 ->
           Stmt("DeleteFile", ErrOK,
                [w EXCEPT !.files = DeleteFile(w.files, c.reg,
                                        GetFilePath(PackageTypeOf(c.reg), c.image, c.version))],
                2, c.manifest, c.count)
      [] c.step = 2 ->
           Stmt("DeleteByVersionAndImageName", ErrOK,
                [w EXCEPT !.artifacts = ArtifactDeleteByVersionAndImageName(
                                            w.artifacts, w.images, c.image, c.version, c.reg)],
                3, c.manifest, c.count)
      [] OTHER ->
           Stmt("DeleteByImageNameIfNoLinkedArtifacts", ErrOK,
                [w EXCEPT !.images = ImageDeleteByImageNameIfNoLinkedArtifacts(
                                         w.images, w.artifacts, c.reg, c.image)],
                0, c.manifest, c.count)

Statement(c, w) ==
    CASE c.op = OpTxOCIImage -> OCIImageStatement(c, w)
      [] c.op = OpTxUntagged -> UntaggedStatement(c, w)
      [] c.op = OpTxGenericImage -> GenericImageStatement(c, w)
      [] OTHER -> GenericArtifactStatement(c, w)

\* Variant: the last statement of a cascade, the removal of the image row,
\* runs on the connection outside the transaction.
InTxButImageDelete(op, name) ==
    name \notin {"DeleteByImageNameAndRegID", "DeleteByImageNameIfNoLinkedArtifacts"}

\* Variant: the file manager is called before the transaction is opened.
InTxButDeleteFile(op, name) == name # "DeleteFile"

\* Every store call of the four cascades is made inside the closure, on the
\* closure's context, which carries the transaction.
InTx(op, name) == op \in TxOps

\* The error a failing store call returns.
StoreErr(name) == IF name = "DeleteFile" THEN ErrStorage ELSE ErrInternal

TxOutcome(c, err, trace) ==
    [op |-> c.op, err |-> err, events |-> <<>>, reindexCalls |-> 0, branch |-> "",
     reg |-> c.reg, image |-> c.image, version |-> c.version,
     before |-> c.before, trace |-> trace]

\* tx.WithTx: BEGIN.
TxBegin(p, op, reg, image, version) ==
    /\ calls[p].pc = "idle"
    /\ op = OpTxUntagged => untagged
    /\ calls' = [calls EXCEPT ![p] =
                    [pc |-> "tx", op |-> op, reg |-> reg, image |-> image,
                     version |-> version, step |-> 1, del |-> EmptyDB, before |-> DB,
                     manifest |-> NoManifest, count |-> 0, trace |-> <<>>]]
    /\ last' = NoCall
    /\ UNCHANGED <<clock, registries, snapshot, untagged, images, nextImageID, artifacts,
                   manifests, nextManifestID, manifestRefs, tags, blobs, blobLinks, files>>

\* One store call of the closure.  fail: the call returns an error (the
\* store fails or the context is cancelled); the closure returns it and the
\* transaction is rolled back.
TxStatement(p, fail) ==
    LET c     == calls[p]
        view  == DBMinus(DB, c.del)
        r     == Statement(c, view)
        err   == IF fail THEN StoreErr(r.name) ELSE r.err
        trace == Append(c.trace, r.name)
        gone  == DBMinus(view, r.db)
    IN  /\ c.pc = "tx"
        /\ IF err # ErrOK
           THEN /\ calls' = [calls EXCEPT ![p] = Idle]
                /\ last' = TxOutcome(c, err, trace)
                /\ UNCHANGED <<images, artifacts, manifests, manifestRefs, tags, blobLinks, files>>
           ELSE /\ last' = NoCall
                /\ IF InTx(c.op, r.name)
                   THEN /\ calls' = [calls EXCEPT ![p] =
                                        [c EXCEPT !.step = r.next, !.trace = trace,
                                                  !.manifest = r.manifest, !.count = r.count,
                                                  !.del = DBUnion(c.del, gone),
                                                  !.pc = IF r.next = 0 THEN "commit" ELSE "tx"]]
                        /\ UNCHANGED <<images, artifacts, manifests, manifestRefs, tags,
                                       blobLinks, files>>
                   ELSE /\ calls' = [calls EXCEPT ![p] =
                                        [c EXCEPT !.step = r.next, !.trace = trace,
                                                  !.manifest = r.manifest, !.count = r.count,
                                                  !.pc = IF r.next = 0 THEN "commit" ELSE "tx"]]
                        /\ SetDB(DBMinus(DB, gone))
        /\ UNCHANGED <<clock, registries, snapshot, untagged, nextImageID, nextManifestID, blobs>>

\* tx.WithTx: COMMIT, or ROLLBACK when the commit fails.
TxCommit(p, fail) ==
    LET c == calls[p]
    IN  /\ c.pc = "commit"
        /\ calls' = [calls EXCEPT ![p] = Idle]
        /\ last' = TxOutcome(c, IF fail THEN ErrInternal ELSE ErrOK, c.trace)
        /\ IF fail
           THEN UNCHANGED <<images, artifacts, manifests, manifestRefs, tags, blobLinks, files>>
           ELSE SetDB(DBMinus(DB, c.del))
        /\ UNCHANGED <<clock, registries, snapshot, untagged, nextImageID, nextManifestID, blobs>>

(***************************************************************************)
(* DeleteArtifactVersionByPackageType step by step: the transaction of its *)
(* branch, then what the service emits once WithTx has returned.           *)
(***************************************************************************)
OpVersionCall == "Service.DeleteArtifactVersionByPackageType"

\* existingDigest = d, assigned in the closure once manifestStore.Delete
\* has returned without error.
ExistingDigestAfter(trace, version) ==
    IF \E k \in 1..Len(trace) : trace[k] = "Delete" THEN version ELSE NoDigest

VersionCallOutcome(c, events) ==
    [op |-> OpVersionCall, err |-> c.err, events |-> events,
     reindexCalls |-> ReindexCalls(c.err), branch |-> c.op, committed |-> c.committed]

\* The switch on the package type has chosen a branch, and its WithTx begins.
VersionCallBegin(p, reg, image, version, principal) ==
    /\ calls[p].pc = "idle"
    /\ PackageTypeOf(reg) \in {"DOCKER", "HELM"} => untagged
    /\ calls' = [calls EXCEPT ![p] =
                    [pc |-> "tx",
                     op |-> IF PackageTypeOf(reg) \in {"DOCKER", "HELM"}
                            THEN OpTxUntagged ELSE OpTxGenericArtifact,
                     reg |-> reg, image |-> image, version |-> version,
                     principal |-> principal, step |-> 1, del |-> EmptyDB,
                     manifest |-> NoManifest, count |-> 0, trace |-> <<>>,
                     err |-> ErrOK, committed |-> FALSE]]
    /\ last' = NoCall
    /\ UNCHANGED <<clock, registries, snapshot, untagged, images, nextImageID, artifacts,
                   manifests, nextManifestID, manifestRefs, tags, blobs, blobLinks, files>>

\* One store call of the closure; on an error the transaction is rolled back
\* and WithTx returns the error.
VersionCallStatement(p, fail) ==
    LET c     == calls[p]
        view  == DBMinus(DB, c.del)
        r     == Statement(c, view)
        err   == IF fail THEN StoreErr(r.name) ELSE r.err
        trace == Append(c.trace, r.name)
        gone  == DBMinus(view, r.db)
    IN  /\ c.pc = "tx"
        /\ calls' = [calls EXCEPT ![p] =
               IF err # ErrOK
               THEN [c EXCEPT !.pc = "after", !.err = err, !.trace = trace]
               ELSE [c EXCEPT !.step = r.next, !.trace = trace, !.manifest = r.manifest,
                              !.count = r.count,
                              !.del = IF InTx(c.op, r.name) THEN DBUnion(c.del, gone) ELSE @,
                              !.pc = IF r.next = 0 THEN "commit" ELSE "tx"]]
        /\ IF err = ErrOK /\ ~InTx(c.op, r.name)
           THEN SetDB(DBMinus(DB, gone))
           ELSE UNCHANGED <<images, artifacts, manifests, manifestRefs, tags, blobLinks, files>>
        /\ last' = NoCall
        /\ UNCHANGED <<clock, registries, snapshot, untagged, nextImageID, nextManifestID, blobs>>

\* COMMIT, or ROLLBACK when the commit fails; WithTx returns.
VersionCallCommit(p, fail) ==
    LET c == calls[p]
    IN  /\ c.pc = "commit"
        /\ calls' = [calls EXCEPT ![p] =
               [c EXCEPT !.pc = "after", !.err = IF fail THEN ErrInternal ELSE ErrOK,
                         !.committed = ~fail]]
        /\ IF fail
           THEN UNCHANGED <<images, artifacts, manifests, manifestRefs, tags, blobLinks, files>>
           ELSE SetDB(DBMinus(DB, c.del))
        /\ last' = NoCall
        /\ UNCHANGED <<clock, registries, snapshot, untagged, nextImageID, nextManifestID, blobs>>

\* After WithTx: the error is returned at once; else the OCI branch fires
\* its webhook, the reindexing service is triggered and nil is returned.
VersionCallAfter(p) ==
    LET c      == calls[p]
        dig    == ExistingDigestAfter(c.trace, c.version)
        branch == IF c.op = OpTxUntagged
                  THEN OciWebhook(c.principal, c.reg, c.image, c.version, dig)
                  ELSE <<>>
        events == AfterBranch(c.err, branch, c.reg, c.image, c.version, c.principal)
    IN  /\ c.pc = "after"
        /\ calls' = [calls EXCEPT ![p] = Idle]
        /\ last' = VersionCallOutcome(c, events)
        /\ UNCHANGED <<clock, registries, snapshot, untagged, images, nextImageID, artifacts,
                       manifests, nextManifestID, manifestRefs, tags, blobs, blobLinks, files>>

(***************************************************************************)
(* Creation of a version of a file-backed package: ImageDao.CreateOrUpdate *)
(* returns the id of the image row, ArtifactDao.CreateOrUpdate inserts the *)
(* version row under that id.  inTx: the caller runs the two in a          *)
(* transaction; its rows are then held in the call record until the        *)
(* commit.                                                                 *)
(***************************************************************************)
OpCreateVersion == "CreateVersion"

CreateVersionBegin(p, reg, image, version, inTx) ==
    /\ calls[p].pc = "idle"
    /\ calls' = [calls EXCEPT ![p] =
                    [pc |-> "createImage", op |-> OpCreateVersion, reg |-> reg,
                     image |-> image, version |-> version, inTx |-> inTx,
                     ins |-> EmptyDB, imageID |-> 0, before |-> DB, trace |-> <<>>]]
    /\ last' = NoCall
    /\ UNCHANGED <<clock, registries, snapshot, untagged, images, nextImageID, artifacts,
                   manifests, nextManifestID, manifestRefs, tags, blobs, blobLinks, files>>

\* ImageDao.CreateOrUpdate ... RETURNING image_id.
CreateVersionImage(p) ==
    LET c     == calls[p]
        view  == DBUnion(DB, c.ins)
        fresh == ImageIDsByName(view.images, c.reg, c.image) = {}
        imgs  == ImageCreateOrUpdate(view.images, nextImageID, c.reg, c.image)
        id    == CHOOSE i \in ImageIDsByName(imgs, c.reg, c.image) : TRUE
        new   == imgs \ DB.images
    IN  /\ c.pc = "createImage"
        /\ fresh => nextImageID <= MaxImageID
        /\ nextImageID' = IF fresh THEN nextImageID + 1 ELSE nextImageID
        /\ images' = IF c.inTx THEN images ELSE imgs
        /\ calls' = [calls EXCEPT ![p] =
                        [c EXCEPT !.pc = "createArtifact", !.imageID = id,
                                  !.trace = Append(c.trace, "ImageDao.CreateOrUpdate"),
                                  !.ins = IF c.inTx THEN [c.ins EXCEPT !.images = new]
                                          ELSE c.ins]]
        /\ last' = NoCall
        /\ UNCHANGED <<clock, registries, snapshot, untagged, artifacts, manifests,
                       nextManifestID, manifestRefs, tags, blobs, blobLinks, files>>

\* ArtifactDao.CreateOrUpdate under the image id.  When the image row is
\* gone the insert either fails (enforced: the schema declares the foreign
\* key) or stores a row without a parent.
CreateVersionArtifact(p, enforced) ==
    LET c      == calls[p]
        view   == DBUnion(DB, c.ins)
        parent == \E i \in view.images : i.id = c.imageID
        arts   == ArtifactCreateOrUpdate(view.artifacts, c.imageID, c.version)
        new    == arts \ DB.artifacts
        file   == {[reg |-> c.reg, image |-> c.image, version |-> c.version]}
        trace  == Append(c.trace, "ArtifactDao.CreateOrUpdate")
    IN  /\ c.pc = "createArtifact"
        /\ parent => ~enforced
        /\ IF ~parent /\ enforced
           THEN /\ calls' = [calls EXCEPT ![p] = Idle]
                /\ last' = TxOutcome(c, ErrInternal, trace)
                /\ UNCHANGED <<artifacts, files>>
           ELSE IF c.inTx
           THEN /\ calls' = [calls EXCEPT ![p] =
                                [c EXCEPT !.pc = "createCommit", !.trace = trace,
                                          !.ins = [c.ins EXCEPT !.artifacts = new,
                                                                !.files = file]]]
                /\ last' = NoCall
                /\ UNCHANGED <<artifacts, files>>
           ELSE /\ calls' = [calls EXCEPT ![p] = Idle]
                /\ last' = TxOutcome(c, ErrOK, trace)
                /\ artifacts' = arts
                /\ files' = files \cup file
        /\ UNCHANGED <<clock, registries, snapshot, untagged, images, nextImageID, manifests,
                       nextManifestID, manifestRefs, tags, blobs, blobLinks>>

CreateVersionCommit(p) ==
    LET c == calls[p]
    IN  /\ c.pc = "createCommit"
        /\ calls' = [calls EXCEPT ![p] = Idle]
        /\ last' = TxOutcome(c, ErrOK, c.trace)
        /\ SetDB(DBUnion(DB, c.ins))
        /\ UNCHANGED <<clock, registries, snapshot, untagged, nextImageID, nextManifestID, blobs>>

(***************************************************************************)
(* Soft delete and restore: single conditional UPDATE statements.  Each    *)
(* operator returns the table after the statement and the number of rows   *)
(* it affected.                                                            *)
(***************************************************************************)
SoftUsers == {42, 43}

Updated(rows, hit, new) == [rows |-> (rows \ hit) \cup new, affected |-> Cardinality(hit)]

\* UPDATE artifacts SET artifact_deleted_at = now, artifact_deleted_by = userID
\* WHERE artifact_image_id = (images of that name and registry)
\*   AND artifact_deleted_at IS NULL
ArtifactSoftDeleteByImageNameAndRegistryID(arts, imgs, reg, image, now, userID) ==
    LET hit == {a \in arts : /\ a.imageID \in ImageIDsByName(imgs, reg, image)
                             /\ a.deletedAt = NULL}
    IN  Updated(arts, hit, {[a EXCEPT !.deletedAt = now, !.deletedBy = userID] : a \in hit})

\* Variant: the statement has no "artifact_deleted_at IS NULL" guard.
ArtifactSoftDeleteUnguarded(arts, imgs, image, version, reg, now, userID) ==
    LET hit == {a \in arts : /\ a.imageID \in ImageIDsByName(imgs, reg, image)
                             /\ a.version = version}
    IN  Updated(arts, hit, {[a EXCEPT !.deletedAt = now, !.deletedBy = userID] : a \in hit})

\* The same UPDATE with AND artifact_version = version.
ArtifactSoftDeleteByVersionAndImageName(arts, imgs, image, version, reg, now, userID) ==
    LET hit == {a \in arts : /\ a.imageID \in ImageIDsByName(imgs, reg, image)
                             /\ a.version = version
                             /\ a.deletedAt = NULL}
    IN  Updated(arts, hit, {[a EXCEPT !.deletedAt = now, !.deletedBy = userID] : a \in hit})

\* UPDATE artifacts a SET artifact_deleted_at = NULL, artifact_deleted_by = NULL,
\* artifact_updated_at = now, artifact_updated_by = userID FROM images i
\* WHERE ... AND a.artifact_deleted_at IS NOT NULL
ArtifactRestoreByImageNameAndRegistryID(arts, imgs, reg, image, now, userID) ==
    LET hit == {a \in arts : /\ a.imageID \in ImageIDsByName(imgs, reg, image)
                             /\ a.deletedAt # NULL}
    IN  Updated(arts, hit, {[a EXCEPT !.deletedAt = NULL, !.deletedBy = NULL,
                                      !.updatedAt = now, !.updatedBy = userID] : a \in hit})

\* Variant: restoring leaves artifact_deleted_by as it was.
ArtifactRestoreKeepsDeletedBy(arts, imgs, image, version, reg, now, userID) ==
    LET hit == {a \in arts : /\ a.imageID \in ImageIDsByName(imgs, reg, image)
                             /\ a.version = version
                             /\ a.deletedAt # NULL}
    IN  Updated(arts, hit, {[a EXCEPT !.deletedAt = NULL,
                                      !.updatedAt = now, !.updatedBy = userID] : a \in hit})

ArtifactRestoreByVersionAndImageName(arts, imgs, image, version, reg, now, userID) ==
    LET hit == {a \in arts : /\ a.imageID \in ImageIDsByName(imgs, reg, image)
                             /\ a.version = version
                             /\ a.deletedAt # NULL}
    IN  Updated(arts, hit, {[a EXCEPT !.deletedAt = NULL, !.deletedBy = NULL,
                                      !.updatedAt = now, !.updatedBy = userID] : a \in hit})

\* Variant: the statement has no "image_deleted_at IS NULL" guard.
ImageSoftDeleteUnguarded(imgs, reg, image, now, userID) ==
    LET hit == {i \in imgs : i.reg = reg /\ i.name = image}
    IN  Updated(imgs, hit, {[i EXCEPT !.deletedAt = now, !.deletedBy = userID] : i \in hit})

\* UPDATE images SET image_deleted_at = now, image_deleted_by = userID
\* WHERE image_registry_id = ? AND image_name = ? AND image_deleted_at IS NULL
ImageSoftDeleteByImageNameAndRegID(imgs, reg, image, now, userID) ==
    LET hit == {i \in imgs : i.reg = reg /\ i.name = image /\ i.deletedAt = NULL}
    IN  Updated(imgs, hit, {[i EXCEPT !.deletedAt = now, !.deletedBy = userID] : i \in hit})

\* UPDATE images SET image_deleted_at = NULL, image_deleted_by = NULL,
\* image_updated_at = now, image_updated_by = userID
\* WHERE ... AND image_deleted_at IS NOT NULL
ImageRestoreByImageNameAndRegID(imgs, reg, image, now, userID) ==
    LET hit == {i \in imgs : i.reg = reg /\ i.name = image /\ i.deletedAt # NULL}
    IN  Updated(imgs, hit, {[i EXCEPT !.deletedAt = NULL, !.deletedBy = NULL,
                                      !.updatedAt = now, !.updatedBy = userID] : i \in hit})

(***************************************************************************)
(* The tri-state filter of the queries.                                    *)
(***************************************************************************)
SoftDeleteFilterExcludeDeleted == "exclude_deleted"
SoftDeleteFilterOnlyDeleted == "only_deleted"
SoftDeleteFilterAll == "all"

SoftDeleteFilters ==
    {SoftDeleteFilterExcludeDeleted, SoftDeleteFilterOnlyDeleted, SoftDeleteFilterAll}

\* switch softDeleteFilter { ... } over the deleted_at columns a query names:
\* all of them NULL, one of them not NULL, or no condition.
FilterMatches(filter, deletedAts) ==
    CASE filter = SoftDeleteFilterExcludeDeleted -> \A d \in deletedAts : d = NULL
      [] filter = SoftDeleteFilterOnlyDeleted -> \E d \in deletedAts : d # NULL
      [] OTHER -> TRUE

\* ArtifactDao.GetByName with a filter: FROM artifacts, artifact_deleted_at only.
ArtifactGetByNameFilter(arts, imageID, version, filter) ==
    {a \in arts : /\ a.imageID = imageID
                  /\ a.version = version
                  /\ FilterMatches(filter, {a.deletedAt})}

\* ArtifactDao.GetByRegistryImageAndVersion: artifacts JOIN images.
ArtifactGetByRegistryImageAndVersion(arts, imgs, reg, image, version, filter) ==
    {a \in arts : /\ a.version = version
                  /\ \E i \in imgs : /\ i.id = a.imageID
                                     /\ i.reg = reg
                                     /\ i.name = image
                                     /\ FilterMatches(filter, {a.deletedAt, i.deletedAt})}

\* ImageDao.GetByName with a filter: images JOIN registries.
ImageGetByNameFilter(imgs, regs, reg, name, filter) ==
    {i \in imgs : /\ i.reg = reg
                  /\ i.name = name
                  /\ \E r \in regs : /\ r.reg = i.reg
                                     /\ FilterMatches(filter, {i.deletedAt, r.deletedAt})}

(***************************************************************************)
(* Query options: functional options folded into a QueryOptions value.     *)
(* An option, a closure in the source, is the assignment it makes.         *)
(***************************************************************************)
MaxOptions == 4

\* The filter values the options name.
SoftDeleteFilterExclude == "SoftDeleteFilterExclude"
SoftDeleteFilterOnly == "SoftDeleteFilterOnly"
SoftDeleteFilterInclude == "SoftDeleteFilterInclude"

OptionFilters == {SoftDeleteFilterExclude, SoftDeleteFilterOnly, SoftDeleteFilterInclude}

\* return func(o *QueryOptions) { o.SoftDeleteFilter = filter }
WithSoftDeleteFilter(filter) == [SoftDeleteFilter |-> filter]

WithAllDeleted == WithSoftDeleteFilter(SoftDeleteFilterInclude)

WithOnlyDeleted == WithSoftDeleteFilter(SoftDeleteFilterOnly)

WithExcludeDeleted == WithSoftDeleteFilter(SoftDeleteFilterExclude)

\* o(&opt)
ApplyOption(o, opt) == [opt EXCEPT !.SoftDeleteFilter = o.SoftDeleteFilter]

\* for _, o := range opts { o(&opt) }
RECURSIVE ApplyOptions(_, _)
ApplyOptions(opt, opts) ==
    IF opts = <<>> THEN opt
    ELSE ApplyOptions(ApplyOption(Head(opts), opt), Tail(opts))

\* Variant: an option is applied only while the filter is still the default.
MakeQueryOptionsFirstWins(opts) ==
    IF opts = <<>> THEN [SoftDeleteFilter |-> SoftDeleteFilterExclude]
    ELSE ApplyOption(Head(opts), [SoftDeleteFilter |-> SoftDeleteFilterExclude])

\* opt := QueryOptions{SoftDeleteFilter: SoftDeleteFilterExclude}; the loop; return opt
MakeQueryOptions(opts) ==
    ApplyOptions([SoftDeleteFilter |-> SoftDeleteFilterExclude], opts)

\* qo := MakeQueryOptions(opts...); return qo.SoftDeleteFilter
ExtractSoftDeleteFilter(opts) == MakeQueryOptions(opts).SoftDeleteFilter

\* The option lists of up to MaxOptions options.
OptionLists ==
    UNION {[1..n -> {WithSoftDeleteFilter(f) : f \in OptionFilters}] : n \in 0..MaxOptions}

\* A query that takes opts ...QueryOption: what it makes of them.
QueryWithOptions(opts) ==
    /\ last' = [op |-> "MakeQueryOptions", err |-> ErrOK, events |-> <<>>, reindexCalls |-> 0,
                branch |-> "", opts |-> opts, options |-> MakeQueryOptions(opts),
                filter |-> ExtractSoftDeleteFilter(opts)]
    /\ UNCHANGED <<clock, registries, snapshot, untagged, images, nextImageID, artifacts,
                   manifests, nextManifestID, manifestRefs, tags, blobs, blobLinks, files, calls>>

OpArtifactSoftDeleteImage == "ArtifactDao.SoftDeleteByImageNameAndRegistryID"
OpArtifactSoftDeleteVersion == "ArtifactDao.SoftDeleteByVersionAndImageName"
OpArtifactRestoreImage == "ArtifactDao.RestoreByImageNameAndRegistryID"
OpArtifactRestoreVersion == "ArtifactDao.RestoreByVersionAndImageName"
OpImageSoftDelete == "ImageDao.SoftDeleteByImageNameAndRegID"
OpImageRestore == "ImageDao.RestoreByImageNameAndRegID"

SoftDeleteOps == {OpArtifactSoftDeleteImage, OpArtifactSoftDeleteVersion, OpImageSoftDelete}
RestoreOps == {OpArtifactRestoreImage, OpArtifactRestoreVersion, OpImageRestore}
VersionOps == {OpArtifactSoftDeleteVersion, OpArtifactRestoreVersion}
ImageTableOps == {OpImageSoftDelete, OpImageRestore}

\* The methods that address one entity: a version or a package.
PointOps == VersionOps \cup ImageTableOps

\* The methods that turn zero affected rows into an error;
\* SoftDeleteByImageNameAndRegistryID discards the result of ExecContext.
RowsCheckedOps ==
    {OpArtifactSoftDeleteVersion, OpArtifactRestoreImage, OpArtifactRestoreVersion,
     OpImageSoftDelete, OpImageRestore}

\* The statement of call c on the two tables.
SoftStatement(c, imgs, arts) ==
    CASE c.op = OpArtifactSoftDeleteImage ->
            ArtifactSoftDeleteByImageNameAndRegistryID(arts, imgs, c.reg, c.image, c.now, c.user)
      [] c.op = OpArtifactSoftDeleteVersion ->
            ArtifactSoftDeleteByVersionAndImageName(arts, imgs, c.image, c.version, c.reg,
                                                    c.now, c.user)
      [] c.op = OpArtifactRestoreImage ->
            ArtifactRestoreByImageNameAndRegistryID(arts, imgs, c.reg, c.image, c.now, c.user)
      [] c.op = OpArtifactRestoreVersion ->
            ArtifactRestoreByVersionAndImageName(arts, imgs, c.image, c.version, c.reg,
                                                 c.now, c.user)
      [] c.op = OpImageSoftDelete ->
            ImageSoftDeleteByImageNameAndRegID(imgs, c.reg, c.image, c.now, c.user)
      [] c.op = OpImageRestore ->
            ImageRestoreByImageNameAndRegID(imgs, c.reg, c.image, c.now, c.user)

\* if rowsAffected == 0 { return ProcessSQLErrorf(ctx, nil, "... not found or already ...") }
SoftErr(op, affected) ==
    IF op \in RowsCheckedOps /\ affected = 0 THEN ErrNoRows ELSE ErrOK

\* The rows a soft deletion is about to mark replace the older snapshots of
\* the same rows.
SnapshotImages(snap, hit) ==
    {s \in snap : \A h \in hit : h.id # s.id} \cup hit

SnapshotArtifacts(snap, hit) ==
    {s \in snap : \A h \in hit : ~(h.imageID = s.imageID /\ h.version = s.version)} \cup hit

\* The clock moves on.
Tick ==
    /\ clock < MaxClock
    /\ clock' = clock + 1
    /\ last' = NoCall
    /\ UNCHANGED <<registries, snapshot, untagged, images, nextImageID, artifacts, manifests,
                   nextManifestID, manifestRefs, tags, blobs, blobLinks, files, calls>>

\* A method is entered: the session's principal and time.Now() are read.
SoftBegin(p, op, reg, image, version, user) ==
    /\ calls[p].pc = "idle"
    /\ op \notin VersionOps => version = ""
    /\ calls' = [calls EXCEPT ![p] =
           [pc |-> "nowRead", op |-> op, reg |-> reg, image |-> image, version |-> version,
            now |-> clock, user |-> user, affected |-> 0, err |-> ErrOK]]
    /\ last' = NoCall
    /\ UNCHANGED <<clock, registries, snapshot, untagged, images, nextImageID, artifacts,
                   manifests, nextManifestID, manifestRefs, tags, blobs, blobLinks, files>>

\* ExecContext runs the statement (failAt = 1: it returns an error) and the
\* method returns.
SoftExec(p, failAt) ==
    LET c   == calls[p]
        r   == SoftStatement(c, images, artifacts)
        ok  == failAt = 0
        err == IF ok THEN SoftErr(c.op, r.affected) ELSE ErrInternal
    IN  /\ c.pc = "nowRead"
        /\ images' = IF ok /\ c.op \in ImageTableOps THEN r.rows ELSE images
        /\ artifacts' = IF ok /\ c.op \notin ImageTableOps THEN r.rows ELSE artifacts
        /\ snapshot' =
              IF ok /\ c.op = OpImageSoftDelete
              THEN [snapshot EXCEPT !.images = SnapshotImages(@, images \ r.rows)]
              ELSE IF ok /\ c.op \in SoftDeleteOps
              THEN [snapshot EXCEPT !.artifacts = SnapshotArtifacts(@, artifacts \ r.rows)]
              ELSE snapshot
        /\ calls' = [calls EXCEPT ![p] =
               [c EXCEPT !.pc = "done", !.affected = IF ok THEN r.affected ELSE 0,
                         !.err = err]]
        /\ last' = Outcome(c.op, err, <<>>)
        /\ UNCHANGED <<clock, registries, untagged, nextImageID, manifests, nextManifestID,
                       manifestRefs, tags, blobs, blobLinks, files>>

\* The caller has its answer and may call again.
SoftReturn(p) ==
    /\ calls[p].pc = "done"
    /\ calls' = [calls EXCEPT ![p] = Idle]
    /\ last' = NoCall
    /\ UNCHANGED <<clock, registries, snapshot, untagged, images, nextImageID, artifacts,
                   manifests, nextManifestID, manifestRefs, tags, blobs, blobLinks, files>>

(***************************************************************************)
(* Purge: the physical removal of soft-deleted rows of one account.        *)
(***************************************************************************)
\* registry_account_identifier of a registry.
AccountOf(reg) == IF reg \in {"g2", "r2"} THEN "acc2" ELSE "acc1"

Accounts == {"acc1", "acc2"}

\* Variant: the statement has no "artifact_deleted_at <= $2" condition.
ArtifactPurgeWithoutCutoff(arts, imgs, accountID, deletedBeforeOrAt) ==
    LET hit == {a \in arts :
                   \E i \in imgs : /\ i.id = a.imageID
                                   /\ AccountOf(i.reg) = accountID
                                   /\ a.deletedAt # NULL}
    IN  [rows |-> arts \ hit, affected |-> Cardinality(hit)]

\* Variant: the statement has no "artifact_deleted_at IS NOT NULL" condition.
ArtifactPurgeWithoutNullTest(arts, imgs, accountID, deletedBeforeOrAt) ==
    LET hit == {a \in arts :
                   \E i \in imgs : /\ i.id = a.imageID
                                   /\ AccountOf(i.reg) = accountID
                                   /\ a.deletedAt <= deletedBeforeOrAt}
    IN  [rows |-> arts \ hit, affected |-> Cardinality(hit)]

\* DELETE FROM artifacts WHERE artifact_id IN (SELECT ... artifacts a
\* INNER JOIN images i INNER JOIN registries r WHERE
\* r.registry_account_identifier = $1 AND a.artifact_deleted_at IS NOT NULL
\* AND a.artifact_deleted_at <= $2)
ArtifactPurge(arts, imgs, accountID, deletedBeforeOrAt) ==
    LET hit == {a \in arts :
                   \E i \in imgs : /\ i.id = a.imageID
                                   /\ AccountOf(i.reg) = accountID
                                   /\ a.deletedAt # NULL
                                   /\ a.deletedAt <= deletedBeforeOrAt}
    IN  [rows |-> arts \ hit, affected |-> Cardinality(hit)]

\* Variant: the statement has no "image_deleted_at IS NOT NULL" condition.
ImagePurgeWithoutNullTest(imgs, accountID, deletedBeforeOrAt) ==
    LET hit == {i \in imgs : /\ AccountOf(i.reg) = accountID
                             /\ i.deletedAt <= deletedBeforeOrAt}
    IN  [rows |-> imgs \ hit, affected |-> Cardinality(hit)]

\* DELETE FROM images WHERE image_id IN (SELECT ... images i INNER JOIN
\* registries r WHERE r.registry_account_identifier = $1
\* AND i.image_deleted_at IS NOT NULL AND i.image_deleted_at <= $2)
ImagePurge(imgs, accountID, deletedBeforeOrAt) ==
    LET hit == {i \in imgs : /\ AccountOf(i.reg) = accountID
                             /\ i.deletedAt # NULL
                             /\ i.deletedAt <= deletedBeforeOrAt}
    IN  [rows |-> imgs \ hit, affected |-> Cardinality(hit)]

OpArtifactPurge == "ArtifactDao.Purge"
OpImagePurge == "ImageDao.Purge"

PurgeOps == {OpArtifactPurge, OpImagePurge}

\* What Purge returns: the number of rows removed, or 0 and an error.
PurgeOutcome(op, err, accountID, deletedBeforeOrAt, count) ==
    [op |-> op, err |-> err, events |-> <<>>, reindexCalls |-> 0, branch |-> "",
     account |-> accountID, cutoff |-> deletedBeforeOrAt, count |-> count]

\* One Purge call: one DELETE statement (failAt = 1: ExecContext fails).
Purge(op, accountID, deletedBeforeOrAt, failAt) ==
    LET r  == IF op = OpArtifactPurge
              THEN ArtifactPurge(artifacts, images, accountID, deletedBeforeOrAt)
              ELSE ImagePurge(images, accountID, deletedBeforeOrAt)
        ok == failAt = 0
    IN  /\ \A p \in DOMAIN calls : calls[p].pc = "idle"
        /\ artifacts' = IF ok /\ op = OpArtifactPurge THEN r.rows ELSE artifacts
        /\ images' = IF ok /\ op = OpImagePurge THEN r.rows ELSE images
        /\ last' = PurgeOutcome(op, IF ok THEN ErrOK ELSE ErrInternal, accountID,
                                deletedBeforeOrAt, IF ok THEN r.affected ELSE 0)
        /\ UNCHANGED <<clock, registries, snapshot, untagged, nextImageID, manifests,
                       nextManifestID, manifestRefs, tags, blobs, blobLinks, files, calls>>

(***************************************************************************)
(* Reads: the filtered queries of the two repositories and the version     *)
(* summary of the API, with what they report about deletion.               *)
(***************************************************************************)
\* registry_deleted_at of a registry.
RegistryDeletedAt(regs, reg) ==
    LET r == CHOOSE x \in regs : x.reg = reg IN r.deletedAt

\* The earliest of a non-empty collection of timestamps.
EarliestTimestamp(timestamps) ==
    CHOOSE t \in timestamps : \A u \in timestamps : ~(u < t)

\* mapImageWithParent: the non-null timestamps of the image and its registry
\* are collected; IsDeleted when there is one, DeletedAt the earliest.
mapImageWithParent(dst) ==
    LET timestamps == {d \in {dst.deletedAt, dst.registryDeletedAt} : d # NULL}
    IN  [id |-> dst.id,
         isDeleted |-> timestamps # {},
         deletedAt |-> IF timestamps = {} THEN NULL ELSE EarliestTimestamp(timestamps)]

\* imageWithParentDB: the image row joined with its registry.
ImageWithParent(i, regs) ==
    [id |-> i.id, deletedAt |-> i.deletedAt,
     registryDeletedAt |-> RegistryDeletedAt(regs, i.reg)]

\* ArtifactDao.GetByRegistryImageAndVersion of the QueryOption variant of the
\* repository: the join is there, the filter names artifact_deleted_at only.
ArtifactGetByRegistryImageAndVersionOpts(arts, imgs, reg, image, version, filter) ==
    {a \in arts : /\ a.version = version
                  /\ a.imageID \in ImageIDsByName(imgs, reg, image)
                  /\ FilterMatches(filter, {a.deletedAt})}

\* The rows ArtifactDao.CountByImageName counts: artifacts JOIN images JOIN
\* registries; an empty name matches every package of the registry.
ArtifactsByImageName(arts, imgs, regs, reg, name, filter) ==
    {a \in arts :
        \E i \in imgs :
           /\ i.id = a.imageID
           /\ i.reg = reg
           /\ name # "" => i.name = name
           /\ FilterMatches(filter, {a.deletedAt, i.deletedAt, RegistryDeletedAt(regs, reg)})}

\* ArtifactDao.GetArtifactMetadata: selects a.artifact_deleted_at and filters
\* on it; mapToArtifactMetadata copies it to DeletedAt.
mapToArtifactMetadata(dst) == [deletedAt |-> dst.deletedAt]

GetArtifactMetadata(arts, imgs, reg, image, version, filter) ==
    {mapToArtifactMetadata(a) :
        a \in ArtifactGetByRegistryImageAndVersionOpts(arts, imgs, reg, image, version, filter)}

\* types.OciVersionMetadata of a tag: the deleted_at of the artifact row
\* named like the tag, of its image and of its registry.
GetTagMetadata(arts, imgs, regs, tgs, reg, image, version) ==
    {[artifactDeletedAt |-> a.deletedAt, imageDeletedAt |-> i.deletedAt,
      registryDeletedAt |-> RegistryDeletedAt(regs, reg)] :
        <<a, i>> \in {x \in arts \X imgs :
                        /\ x[2].reg = reg /\ x[2].name = image
                        /\ x[1].imageID = x[2].id /\ x[1].version = version
                        /\ FindTag(tgs, reg, image, version) # {}}}

\* FetchArtifactSummary, DOCKER / HELM: deleted when one of the three is;
\* deletedAt is the artifact's timestamp, else the image's, else nil.
OciSummary(ociVersion) ==
    [isDeleted |-> \/ ociVersion.artifactDeletedAt # NULL
                   \/ ociVersion.imageDeletedAt # NULL
                   \/ ociVersion.registryDeletedAt # NULL,
     deletedAt |-> IF ociVersion.artifactDeletedAt # NULL THEN ociVersion.artifactDeletedAt
                   ELSE IF ociVersion.imageDeletedAt # NULL THEN ociVersion.imageDeletedAt
                   ELSE NULL]

\* FetchArtifactSummary, the other package types: isDeleted and deletedAt
\* are read off metadata.DeletedAt.
MetadataSummary(metadata) ==
    [isDeleted |-> metadata.deletedAt # NULL, deletedAt |-> metadata.deletedAt]

FetchArtifactSummary(arts, imgs, regs, tgs, reg, image, version) ==
    IF PackageTypeOf(reg) \in {"DOCKER", "HELM"}
    THEN {OciSummary(o) : o \in GetTagMetadata(arts, imgs, regs, tgs, reg, image, version)}
    ELSE {MetadataSummary(m) :
             m \in GetArtifactMetadata(arts, imgs, reg, image, version, SoftDeleteFilterAll)}

OpArtifactGetByName == "ArtifactDao.GetByName"
OpArtifactGetByRegistryImageAndVersion == "ArtifactDao.GetByRegistryImageAndVersion"
OpArtifactGetByRegistryImageAndVersionOpts == "ArtifactDao.GetByRegistryImageAndVersion(opts)"
OpArtifactCountByImageName == "ArtifactDao.CountByImageName"
OpImageGetByName == "ImageDao.GetByName"
OpFetchArtifactSummary == "APIController.FetchArtifactSummary"

ArtifactQueryOps ==
    {OpArtifactGetByName, OpArtifactGetByRegistryImageAndVersion,
     OpArtifactGetByRegistryImageAndVersionOpts, OpArtifactCountByImageName}

\* What a read hands to its caller: the rows or the summaries (a count, the
\* rows it counts).  sql.ErrNoRows of a get becomes not-found.
ReadOutcome(op, filter, reg, image, version, rows) ==
    [op |-> op,
     err |-> IF rows = {} /\ op # OpArtifactCountByImageName THEN ErrNotFound ELSE ErrOK,
     events |-> <<>>, reindexCalls |-> 0, branch |-> "",
     filter |-> filter, reg |-> reg, image |-> image, version |-> version,
     rows |-> rows]

\* The rows the artifact query q returns.
ArtifactQueryRows(q, reg, image, version, filter) ==
    CASE q = OpArtifactGetByName ->
            UNION {ArtifactGetByNameFilter(artifacts, id, version, filter) :
                      id \in ImageIDsByName(images, reg, image)}
      [] q = OpArtifactGetByRegistryImageAndVersion ->
            ArtifactGetByRegistryImageAndVersion(artifacts, images, reg, image, version, filter)
      [] q = OpArtifactGetByRegistryImageAndVersionOpts ->
            ArtifactGetByRegistryImageAndVersionOpts(
                artifacts, images, reg, image, version, filter)
      [] q = OpArtifactCountByImageName ->
            ArtifactsByImageName(artifacts, images, registries, reg, image, filter)

\* The caller of a read is between its writes.
ReadStep ==
    /\ \A p \in DOMAIN calls : calls[p].pc = "idle"
    /\ UNCHANGED <<clock, registries, snapshot, untagged, images, nextImageID, artifacts,
                   manifests, nextManifestID, manifestRefs, tags, blobs, blobLinks, files,
                   calls>>

ArtifactQuery(q, reg, image, version, filter) ==
    /\ q = OpArtifactCountByImageName => version = ""
    /\ q # OpArtifactCountByImageName => version # ""
    /\ last' = ReadOutcome(q, filter, reg, image, version,
                           ArtifactQueryRows(q, reg, image, version, filter))
    /\ ReadStep

ImageQuery(reg, image, filter) ==
    /\ last' = ReadOutcome(OpImageGetByName, filter, reg, image, "",
                  {mapImageWithParent(ImageWithParent(i, registries)) :
                      i \in ImageGetByNameFilter(images, registries, reg, image, filter)})
    /\ ReadStep

ArtifactSummary(reg, image, version) ==
    /\ last' = ReadOutcome(OpFetchArtifactSummary, SoftDeleteFilterAll, reg, image, version,
                  FetchArtifactSummary(artifacts, images, registries, tags,
                                       reg, image, version))
    /\ ReadStep

\* A registry is soft-deleted: its row takes the time and the principal.
RegistrySoftDelete(reg, userID) ==
    LET hit == {r \in registries : r.reg = reg /\ r.deletedAt = NULL}
    IN  /\ hit # {}
        /\ \A p \in DOMAIN calls : calls[p].pc = "idle"
        /\ registries' = (registries \ hit)
                            \cup {[r EXCEPT !.deletedAt = clock, !.deletedBy = userID] : r \in hit}
        /\ last' = NoCall
        /\ UNCHANGED <<clock, snapshot, untagged, images, nextImageID, artifacts, manifests,
                       nextManifestID, manifestRefs, tags, blobs, blobLinks, files, calls>>

(***************************************************************************)
(* The reindexing service called on its own: the tail of                   *)
(* DeleteArtifactVersionByPackageType with every package type.             *)
(***************************************************************************)
TriggerReindexing(p, packageType, reg, image, version, principal) ==
    LET events == TriggerArtifactVersionReindexing(
                      packageType, reg, image, version, PrincipalIDValue(principal))
    IN  /\ calls' = [calls EXCEPT ![p] =
               [pc |-> "reindexed", packageType |-> packageType, reg |-> reg,
                image |-> image, version |-> version, principal |-> principal]]
        /\ last' = [Outcome("TriggerArtifactVersionReindexing", ErrOK, events)
                       EXCEPT !.reindexCalls = 1]
        /\ UNCHANGED <<clock, registries, snapshot, untagged, images, nextImageID, artifacts, manifests, nextManifestID,
                       manifestRefs, tags, blobs, blobLinks, files>>

(***************************************************************************)
(* The registry under OCI traffic.                                         *)
(***************************************************************************)
\* The image under study takes every digest and media type; its neighbours
\* (another image of the registry, the same name in another registry) hold
\* one image manifest.
PushTargets == {<<"r1", "app">>, <<"r1", "lib">>, <<"r2", "app">>}

PushInputs ==
    {<<"r1", "app", d, mt>> : d \in Digests, mt \in MediaTypes}
    \cup {<<t[1], t[2], "sha256:aaa", MediaTypeManifest>> :
             t \in PushTargets \ {<<"r1", "app">>}}

\* Two tags for the image under study, one for its neighbour.
TagInputs == {<<"r1", "app", n>> : n \in TagNames} \cup {<<"r1", "lib", "v1">>}

InitRows ==
    /\ images = {}
    /\ nextImageID = 1
    /\ artifacts = {}
    /\ manifests = {}
    /\ nextManifestID = 1
    /\ manifestRefs = {}
    /\ tags = {}
    /\ blobs = {}
    /\ blobLinks = {}
    /\ files = {}
    /\ last = NoCall
    /\ clock = 0
    /\ registries = {RegistryRow(r) : r \in RegistryNames}
    /\ snapshot = [images |-> {}, artifacts |-> {}]

InitTables == InitRows /\ calls = [p \in Procs |-> Idle]

Pushes ==
    \/ \E i \in PushInputs, ch \in SUBSET (1..MaxManifestID), b \in Blobs :
          PushManifest(i[1], i[2], i[3], i[4], ch, b)
    \/ \E t \in TagInputs, id \in 1..MaxManifestID :
          PushTag(t[1], t[2], t[3], id)

DeleteImages ==
    \E t \in PushTargets, f \in 0..1 : DeleteOCIImage(t[1], t[2], f)

\* Untagged (digest-addressed) mode.
Init == untagged = TRUE /\ InitTables

\* Versions asked for in untagged mode: the digests, and a name that is no digest.
UntaggedVersions == Digests \cup {"v1"}

Next ==
    \/ Pushes
    \/ \E t \in PushTargets, v \in UntaggedVersions, pr \in Principals, f \in 0..3 :
          DeleteVersionUntagged(t[1], t[2], v, pr, f)
    \/ DeleteImages

Spec == Init /\ [][Next]_vars

\* Tagged (name-addressed) mode.
InitTagged == untagged = FALSE /\ InitTables

\* Tagged-mode deletion reads neither media types nor references: the
\* manifests pushed here are image manifests of two images of one registry.
TaggedTargets == {<<"r1", "app">>, <<"r1", "lib">>}

\* The tags deleted and re-pointed are those of the image under study.
TaggedTagInputs == {t \in TagInputs : t[2] = "app"}

PushesTagged ==
    \/ \E i \in {x \in PushInputs : x[4] = MediaTypeManifest /\ <<x[1], x[2]>> \in TaggedTargets},
          b \in Blobs :
          PushManifest(i[1], i[2], i[3], i[4], {}, b)
    \/ \E t \in TaggedTagInputs, id \in 1..MaxManifestID :
          PushTag(t[1], t[2], t[3], id)

NextTagged ==
    \/ PushesTagged
    \/ \E p \in Procs, t \in TaggedTagInputs, pr \in Principals :
          TaggedFindTag(p, t[1], t[2], t[3], pr)
    \/ \E p \in Procs : TaggedGetManifest(p)
    \/ \E p \in Procs, f \in 0..1 : TaggedDeleteTag(p, f)
    \/ \E t \in TaggedTagInputs, pr \in Principals, f \in 0..1 :
          DeleteVersionTaggedWhole(t[1], t[2], t[3], pr, f)
    \/ \E t \in TaggedTargets, f \in 0..1 : DeleteOCIImage(t[1], t[2], f)

SpecTagged == InitTagged /\ [][NextTagged]_vars

\* Either mode: the flag is read from the configuration at start-up and
\* stays as it is.
InitOCI == untagged \in BOOLEAN /\ InitTables

NextOCI ==
    \/ untagged /\ Next
    \/ ~untagged /\ NextTagged

SpecOCI == InitOCI /\ [][NextOCI]_vars

\* File-backed packages: a GENERIC registry with two packages, a GO and an
\* RPM registry with one.
GenericTargets == {<<"g1", "app">>, <<"g1", "lib">>, <<"g2", "app">>, <<"g3", "app">>}

NextGeneric ==
    \/ \E t \in GenericTargets, v \in GenericVersions : UploadGeneric(t[1], t[2], v)
    \/ \E t \in GenericTargets, v \in GenericVersions, f \in 0..2 :
          DeleteGenericArtifact(t[1], t[2], v, f)
    \/ \E t \in GenericTargets, v \in GenericVersions, pr \in Principals, f \in 0..2 :
          DeleteVersionGeneric(t[1], t[2], v, pr, f)
    \/ \E t \in GenericTargets, v \in GenericVersions, pr \in Principals, f \in 0..2 :
          ControllerDeleteVersion(t[1], t[2], v, pr, f)

SpecGeneric == InitTagged /\ [][NextGeneric]_vars

\* The reindexing service under every package type, principal and target.
NextReindex ==
    \E p \in Procs, pt \in PackageTypes, t \in GenericTargets, v \in GenericVersions,
       pr \in Principals :
          TriggerReindexing(p, pt, t[1], t[2], v, pr)

SpecReindex == InitTagged /\ [][NextReindex]_vars

\* Version deletion through the one entry point, on registries of every
\* family: OCI (one tagged image), file-backed (GO, RPM) and types the switch
\* leaves to the package wrapper (CARGO, custom).
DispatchOCI == <<"r1", "app", "sha256:aaa", "v1">>

DispatchFileTargets == {<<"g2", "app">>, <<"g3", "app">>}

DispatchWrapperTargets == {<<"c1", "app">>, <<"x1", "app">>}

DispatchVersions == {"1.0.0"}

NextDispatchVersion ==
    \/ \E b \in Blobs :
          PushManifest(DispatchOCI[1], DispatchOCI[2], DispatchOCI[3], MediaTypeManifest, {}, b)
    \/ \E id \in 1..MaxManifestID :
          PushTag(DispatchOCI[1], DispatchOCI[2], DispatchOCI[4], id)
    \/ \E t \in DispatchFileTargets \cup DispatchWrapperTargets, v \in DispatchVersions :
          UploadGeneric(t[1], t[2], v)
    \/ \E pr \in Principals, f \in 0..1 :
          DeleteVersionTaggedWhole(DispatchOCI[1], DispatchOCI[2], DispatchOCI[4], pr, f)
    \/ \E t \in DispatchFileTargets, v \in DispatchVersions, pr \in Principals, f \in 0..2 :
          DeleteVersionGeneric(t[1], t[2], v, pr, f)
    \/ \E t \in DispatchWrapperTargets, v \in DispatchVersions, pr \in Principals,
          w \in WrapperResults :
          DeleteVersionUnknown(t[1], t[2], v, pr, w)

SpecDispatch == InitTagged /\ [][NextDispatchVersion]_vars

\* The two hard-delete paths side by side, in either mode: the metadata
\* controller and the deletion service delete versions of one OCI image and
\* of a GENERIC, a GO and an RPM package.
PathOCI == <<"r1", "app">>

PathFileTargets == {<<"g1", "app">>, <<"g2", "app">>, <<"g3", "app">>}

PathVersions == {"sha256:aaa", "v1"}

NextPaths ==
    \/ \E b \in Blobs :
          PushManifest(PathOCI[1], PathOCI[2], "sha256:aaa", MediaTypeManifest, {}, b)
    \/ \E id \in 1..MaxManifestID : PushTag(PathOCI[1], PathOCI[2], "v1", id)
    \/ \E t \in PathFileTargets, v \in DispatchVersions : UploadGeneric(t[1], t[2], v)
    \/ \E v \in PathVersions, pr \in Principals, f \in 0..3 :
          DeleteVersionUntagged(PathOCI[1], PathOCI[2], v, pr, f)
    \/ \E v \in PathVersions, pr \in Principals, f \in 0..1 :
          DeleteVersionTaggedWhole(PathOCI[1], PathOCI[2], v, pr, f)
    \/ \E t \in PathFileTargets, v \in DispatchVersions, pr \in Principals, f \in 0..2 :
          DeleteVersionGeneric(t[1], t[2], v, pr, f)
    \/ \E v \in PathVersions, pr \in Principals, f \in 0..3 :
          ControllerDeleteOciVersion(PathOCI[1], PathOCI[2], v, pr, f)
    \/ \E t \in PathFileTargets, v \in DispatchVersions, pr \in Principals, f \in 0..2 :
          ControllerDeleteVersion(t[1], t[2], v, pr, f)

SpecPaths == InitOCI /\ [][NextPaths]_vars

\* Whole-package deletion on a registry of every family: an OCI image, file
\* packages of the GENERIC, GO, RPM and HUGGINGFACE registries, and packages
\* of a CARGO and of a custom registry.
ImageOCI == <<"r1", "app">>

ImageFileTargets ==
    {<<"g1", "app">>, <<"g2", "app">>, <<"g3", "app">>, <<"h1", "app">>,
     <<"c1", "app">>, <<"x1", "app">>}

\* The GENERIC package has two versions, the others one.
ImageUploads ==
    {<<t[1], t[2], "1.0.0">> : t \in ImageFileTargets} \cup {<<"g1", "app", "2.0.0">>}

NextImageDispatch ==
    \/ \E b \in Blobs :
          PushManifest(ImageOCI[1], ImageOCI[2], "sha256:aaa", MediaTypeManifest, {}, b)
    \/ \E id \in 1..MaxManifestID : PushTag(ImageOCI[1], ImageOCI[2], "v1", id)
    \/ \E u \in ImageUploads : UploadGeneric(u[1], u[2], u[3])
    \/ \E t \in {ImageOCI} \cup ImageFileTargets, f \in 0..2, w \in WrapperResults :
          DeleteImageByPackageType(t[1], t[2], f, w)

SpecImageDispatch == InitTagged /\ [][NextImageDispatch]_vars

\* Soft deletion and restoring of one package with one version, and of a
\* version and a package that are not there, by one caller after the other.
SoftUploads == {<<"g1", "app", "1.0.0">>}

SoftImages == {"app", "lib"}

SoftCallInputs ==
    {<<op, "g1", i, v>> : op \in VersionOps, i \in SoftImages, v \in GenericVersions}
    \cup {<<op, "g1", i, "">> : op \in (SoftDeleteOps \cup RestoreOps) \ VersionOps,
                                 i \in SoftImages}

NextSoft ==
    \/ \E u \in SoftUploads : UploadGeneric(u[1], u[2], u[3])
    \/ Tick
    \/ \E p \in Procs, i \in SoftCallInputs, user \in SoftUsers :
          SoftBegin(p, i[1], i[2], i[3], i[4], user)
    \/ \E p \in Procs, f \in 0..1 : SoftExec(p, f)
    \/ \E p \in Procs : SoftReturn(p)

SpecSoft == InitTagged /\ [][NextSoft]_vars

\* Callers at the same time: two sessions, each making one call.  Package
\* "app" and its version are live and are soft-deleted by both; package "lib"
\* and its version were soft-deleted earlier and are restored by both.
RaceProcs == {"s1", "s2"}

RaceUploads == {<<"g1", "app", "1.0.0">>, <<"g1", "lib", "1.0.0">>}

RaceCallInputs ==
    {<<op, "g1", "app", IF op \in VersionOps THEN "1.0.0" ELSE "">> : op \in SoftDeleteOps}
    \cup {<<op, "g1", "lib", IF op \in VersionOps THEN "1.0.0" ELSE "">> : op \in RestoreOps}

InitRace ==
    /\ untagged = FALSE
    /\ InitRows
    /\ calls = [p \in RaceProcs |-> Idle]

\* The earlier soft deletion of "lib" and of its version, by one session.
RaceSetup(user) ==
    LET imgs == ImageSoftDeleteByImageNameAndRegID(images, "g1", "lib", clock, user)
        arts == ArtifactSoftDeleteByImageNameAndRegistryID(
                    artifacts, images, "g1", "lib", clock, user)
    IN  /\ \A p \in RaceProcs : calls[p].pc = "idle"
        /\ imgs.affected = 1
        /\ arts.affected = 1
        /\ images' = imgs.rows
        /\ artifacts' = arts.rows
        /\ last' = NoCall
        /\ UNCHANGED <<clock, registries, snapshot, untagged, nextImageID, manifests,
                       nextManifestID, manifestRefs, tags, blobs, blobLinks, files, calls>>

\* The racing calls start once both packages are in their starting state.
RaceReady ==
    /\ \E i \in images : i.name = "app" /\ i.deletedAt = NULL
    /\ \E a \in artifacts : a.imageID \in ImageIDsByName(images, "g1", "app")
    /\ \E i \in images : i.name = "lib" /\ i.deletedAt # NULL
    /\ \E a \in artifacts : /\ a.imageID \in ImageIDsByName(images, "g1", "lib")
                            /\ a.deletedAt # NULL

NextRace ==
    \/ \E u \in RaceUploads :
          (\A p \in RaceProcs : calls[p].pc = "idle") /\ UploadGeneric(u[1], u[2], u[3])
    \/ \E user \in SoftUsers : RaceSetup(user)
    \/ Tick
    \/ \E p \in RaceProcs, i \in RaceCallInputs, user \in SoftUsers :
          RaceReady /\ SoftBegin(p, i[1], i[2], i[3], i[4], user)
    \/ \E p \in RaceProcs, f \in 0..1 : SoftExec(p, f)

SpecSoftRace == InitRace /\ [][NextRace]_vars

\* Reads between soft deletions: a file-backed package and an OCI package,
\* each with one version; versions, packages and registries are soft-deleted
\* at different times, and every query is asked with every filter.
ReadRegistries == {"g1", "r1"}

ReadVersions == {<<"g1", "app", "1.0.0">>, <<"r1", "app", "v1">>}

ReadSoftInputs ==
    {<<OpArtifactSoftDeleteVersion, t[1], t[2], t[3]>> : t \in ReadVersions}
    \cup {<<OpImageSoftDelete, t[1], t[2], "">> : t \in ReadVersions}

NextReads ==
    \/ UploadGeneric("g1", "app", "1.0.0")
    \/ PushManifest("r1", "app", "sha256:aaa", MediaTypeManifest, {}, "b1")
    \/ \E id \in 1..MaxManifestID : PushTag("r1", "app", "v1", id)
    \/ Tick
    \/ \E reg \in ReadRegistries : RegistrySoftDelete(reg, 42)
    \/ \E p \in Procs, i \in ReadSoftInputs : SoftBegin(p, i[1], i[2], i[3], i[4], 42)
    \/ \E p \in Procs : SoftExec(p, 0)
    \/ \E p \in Procs : SoftReturn(p)
    \/ \E q \in ArtifactQueryOps, t \in ReadVersions, f \in SoftDeleteFilters :
          ArtifactQuery(q, t[1], t[2], IF q = OpArtifactCountByImageName THEN "" ELSE t[3], f)
    \/ \E t \in ReadVersions, f \in SoftDeleteFilters : ImageQuery(t[1], t[2], f)
    \/ \E t \in ReadVersions : ArtifactSummary(t[1], t[2], t[3])

SpecReads == InitTagged /\ [][NextReads]_vars

\* Purges among soft deletions and restores: one package with one version in
\* a registry of each of two accounts.  The package of the first account is
\* soft-deleted and restored as a version and as a package, the version of
\* the second account is soft-deleted only.
PurgeUploads == {<<"g1", "app", "1.0.0">>, <<"g2", "app", "1.0.0">>}

PurgeSoftInputs ==
    {<<op, "g1", "app", IF op \in VersionOps THEN "1.0.0" ELSE "">> : op \in PointOps}
    \cup {<<OpArtifactSoftDeleteVersion, "g2", "app", "1.0.0">>}

\* deletedBeforeOrAt: the first instant, and the one after it.
PurgeCutoffs == {0, 1}

\* Nothing is uploaded once the first row has been soft-deleted: a row that
\* is gone is not created anew by an upload.
NextPurge ==
    \/ \E u \in PurgeUploads :
          /\ snapshot = [images |-> {}, artifacts |-> {}]
          /\ UploadGeneric(u[1], u[2], u[3])
    \/ Tick
    \/ \E p \in Procs, i \in PurgeSoftInputs : SoftBegin(p, i[1], i[2], i[3], i[4], 42)
    \/ \E p \in Procs : SoftExec(p, 0)
    \/ \E p \in Procs : SoftReturn(p)
    \/ \E op \in PurgeOps, acc \in Accounts, cutoff \in PurgeCutoffs, f \in 0..1 :
          Purge(op, acc, cutoff, f)

SpecPurge == InitTagged /\ [][NextPurge]_vars

\* Soft deletion and restoring of a package with two versions: one session
\* soft-deletes and restores single versions, another one the package, by
\* either of the two tables' package-wide methods.
VersionActor == 42
PackageActor == 43

PackageWideOps == (SoftDeleteOps \cup RestoreOps) \ VersionOps

SoftImageInputs ==
    {<<op, "g1", "app", v, VersionActor>> : op \in VersionOps, v \in GenericVersions}
    \cup {<<op, "g1", "app", "", PackageActor>> : op \in PackageWideOps}

NextSoftImage ==
    \/ \E v \in GenericVersions :
          /\ snapshot = [images |-> {}, artifacts |-> {}]
          /\ UploadGeneric("g1", "app", v)
    \/ Tick
    \/ \E p \in Procs, i \in SoftImageInputs : SoftBegin(p, i[1], i[2], i[3], i[4], i[5])
    \/ \E p \in Procs : SoftExec(p, 0)
    \/ \E p \in Procs : SoftReturn(p)

SpecSoftImage == InitTagged /\ [][NextSoftImage]_vars

\* Hard deletion among soft deletions: versions of one package are
\* soft-deleted and restored one by one, and live versions are deleted for
\* good.  Nothing is uploaded once the first row has been soft-deleted.
SoftHardInputs ==
    {<<op, "g1", "app", v>> : op \in VersionOps, v \in GenericVersions}

LiveVersion(reg, image, version) ==
    \E a \in artifacts : /\ a.imageID \in ImageIDsByName(images, reg, image)
                          /\ a.version = version
                          /\ a.deletedAt = NULL

NextSoftHard ==
    \/ \E v \in GenericVersions :
          /\ snapshot = [images |-> {}, artifacts |-> {}]
          /\ UploadGeneric("g1", "app", v)
    \/ Tick
    \/ \E p \in Procs, i \in SoftHardInputs : SoftBegin(p, i[1], i[2], i[3], i[4], 42)
    \/ \E p \in Procs : SoftExec(p, 0)
    \/ \E p \in Procs : SoftReturn(p)
    \/ \E v \in GenericVersions, f \in 0..2 :
          LiveVersion("g1", "app", v) /\ DeleteGenericArtifact("g1", "app", v, f)

SpecSoftHard == InitTagged /\ [][NextSoftHard]_vars

\* The cascades statement by statement: one OCI image with image manifests
\* and indexes and a tag, a neighbour image of one digest, and a file-backed
\* package with two versions.  Rows are created while no transaction is open.
TxPushInputs ==
    {<<"r1", "app", "sha256:aaa", MediaTypeManifest>>,
     <<"r1", "app", "sha256:bbb", MediaTypeManifest>>,
     <<"r1", "app", "sha256:bbb", MediaTypeImageIndex>>,
     <<"r1", "lib", "sha256:aaa", MediaTypeManifest>>}

\* The manifests an index pushed here refers to: none, or the first one.
TxChildren == {{}, {1}}

TxCallInputs ==
    {<<OpTxOCIImage, "r1", "app", "">>, <<OpTxGenericImage, "g1", "app", "">>}
    \cup {<<OpTxUntagged, "r1", "app", d>> : d \in Digests}
    \cup {<<OpTxGenericArtifact, "g1", "app", v>> : v \in GenericVersions}

NextTx ==
    \/ /\ calls["p1"].pc = "idle"
       /\ \/ \E i \in TxPushInputs, ch \in TxChildren, b \in Blobs :
                PushManifest(i[1], i[2], i[3], i[4], ch, b)
          \/ \E id \in 1..MaxManifestID : PushTag("r1", "app", "v1", id)
          \/ \E v \in GenericVersions : UploadGeneric("g1", "app", v)
    \/ \E p \in Procs, i \in TxCallInputs : TxBegin(p, i[1], i[2], i[3], i[4])
    \/ \E p \in Procs, fail \in BOOLEAN : TxStatement(p, fail)
    \/ \E p \in Procs, fail \in BOOLEAN : TxCommit(p, fail)

SpecTx == Init /\ [][NextTx]_vars

\* Two deleters, one per version of a package, and a creator of a third
\* version of the same package, in every interleaving; no store call fails
\* by itself.
DeleterVersion == [d1 |-> "1.0.0", d2 |-> "2.0.0"]

Deleters == {"d1", "d2"}

Creators == {"u1"}

CreatedVersion == "3.0.0"

InitTxRace == untagged = FALSE /\ InitRows /\ calls = [p \in Deleters \cup Creators |-> Idle]

NextTxRace ==
    \/ /\ \A p \in Deleters \cup Creators : calls[p].pc = "idle"
       /\ \E v \in GenericVersions : UploadGeneric("g1", "app", v)
    \/ \E p \in Deleters : TxBegin(p, OpTxGenericArtifact, "g1", "app", DeleterVersion[p])
    \/ \E p \in Deleters : TxStatement(p, FALSE)
    \/ \E p \in Deleters : TxCommit(p, FALSE)
    \/ \E p \in Creators, inTx \in BOOLEAN :
          CreateVersionBegin(p, "g1", "app", CreatedVersion, inTx)
    \/ \E p \in Creators : CreateVersionImage(p)
    \/ \E p \in Creators, enforced \in BOOLEAN : CreateVersionArtifact(p, enforced)
    \/ \E p \in Creators : CreateVersionCommit(p)

SpecTxRace == InitTxRace /\ [][NextTxRace]_vars

\* Version deletion on file-backed registries (GENERIC, GO, RPM) whose side
\* channels may fail.
SideTargets == {<<"g1", "app">>, <<"g2", "app">>, <<"g3", "app">>}

NextSide ==
    \/ \E t \in SideTargets, v \in GenericVersions : UploadGeneric(t[1], t[2], v)
    \/ \E t \in SideTargets, v \in GenericVersions, pr \in Principals, f \in 0..2,
          cf \in BOOLEAN :
          DeleteVersionSideChannels(t[1], t[2], v, pr, f, cf)
    \/ \E t \in SideTargets, v \in GenericVersions, pr \in Principals, f \in 0..2,
          cf \in BOOLEAN, af \in BOOLEAN :
          ControllerDeleteVersionSideChannels(t[1], t[2], v, pr, f, cf, af)

SpecSide == InitTagged /\ [][NextSide]_vars

\* An untagged version deletion, store call by store call, while manifests
\* of the same image are pushed.
NextTxPush ==
    \/ \E i \in TxPushInputs, ch \in TxChildren, b \in Blobs :
          PushManifest(i[1], i[2], i[3], i[4], ch, b)
    \/ \E p \in Procs, d \in Digests : TxBegin(p, OpTxUntagged, "r1", "app", d)
    \/ \E p \in Procs : TxStatement(p, FALSE)
    \/ \E p \in Procs : TxCommit(p, FALSE)

SpecTxPush == Init /\ [][NextTxPush]_vars

\* Version deletions by the service, step by step, with their events: an
\* OCI package in untagged mode and packages of a GO and an RPM registry.
EmitPushInputs ==
    {<<"r1", "app", "sha256:aaa", MediaTypeManifest>>,
     <<"r1", "app", "sha256:bbb", MediaTypeImageIndex>>}

EmitUploads == {<<"g2", "app", "1.0.0">>, <<"g3", "app", "1.0.0">>}

EmitCallInputs ==
    {<<"r1", "app", d>> : d \in Digests} \cup EmitUploads

NextEmit ==
    \/ /\ calls["p1"].pc = "idle"
       /\ \/ \E i \in EmitPushInputs, ch \in TxChildren, b \in Blobs :
                PushManifest(i[1], i[2], i[3], i[4], ch, b)
          \/ \E u \in EmitUploads : UploadGeneric(u[1], u[2], u[3])
    \/ \E p \in Procs, i \in EmitCallInputs, pr \in Principals :
          VersionCallBegin(p, i[1], i[2], i[3], pr)
    \/ \E p \in Procs, fail \in BOOLEAN : VersionCallStatement(p, fail)
    \/ \E p \in Procs, fail \in BOOLEAN : VersionCallCommit(p, fail)
    \/ \E p \in Procs : VersionCallAfter(p)

SpecEmit == Init /\ [][NextEmit]_vars

\* Queries called with every list of up to MaxOptions options.
NextOptions == \E opts \in OptionLists : QueryWithOptions(opts)

SpecOptions == InitTagged /\ [][NextOptions]_vars

\* The audit functions under every action, registry, session and failure.
NextAudit ==
    \/ \E a \in AuditActions, r \in RegistryNames, pr \in SoftUsers, af, uf \in BOOLEAN :
          RegistryAuditLog(a, r, pr, af, uf)
    \/ \E a \in AuditActions, r \in RegistryNames, pr \in SoftUsers, nil, af, uf \in BOOLEAN :
          LogWithUDPEvent(a, r, pr, nil, af, uf)
    \/ \E a \in AuditActions, r \in RegistryNames, pr \in SoftUsers, nil, uf \in BOOLEAN :
          InsertUDPAuditEvent(convertAuditActionToUDP(a), r, pr, nil, uf)

SpecAudit == InitTagged /\ [][NextAudit]_vars

(***************************************************************************)
(* Properties of untagged-mode version deletion.                          *)
(***************************************************************************)
\* The manifest a digest-addressed deletion of (reg, image, version) locates.
Located(reg, image, version) ==
    FindManifestByDigest(manifests, reg, image, NewDigest(version))

\* The located manifest has a parent among the live manifests.
LocatedIsReferenced(reg, image, version) ==
    \E m \in Located(reg, image, version) :
        ReferencedBy(manifests, manifestRefs, m) # {}

\* C1: in untagged mode, DeleteOCIArtifactVersion on a manifest referenced by
\* another manifest-list / image-index manifest fails with a conflict error,
\* leaves every manifest, tag, artifact and image row unchanged, and emits
\* neither a webhook nor a reindexing event (no store call failing).
C1_ReferencedDeleteConflicts ==
    [][last'.op = "DeleteOCIArtifactVersion" =>
        \A t \in PushTargets, v \in UntaggedVersions, pr \in Principals :
           (DeleteVersionUntagged(t[1], t[2], v, pr, 0)
              /\ LocatedIsReferenced(t[1], t[2], v))
           => /\ last'.err = ErrConflict
              /\ UNCHANGED <<manifests, manifestRefs, tags, artifacts, images>>
              /\ last'.events = <<>>]_vars

\* C2: in untagged mode, when the located manifest is of manifest-list /
\* image-index media type and another manifest references it, the deletion
\* aborts with a conflict and the manifest stays: the reference check
\* protects a referenced manifest whatever its media type.
C2_ListTypeIsReferenceChecked ==
    [][last'.op = "DeleteOCIArtifactVersion" =>
        \A t \in PushTargets, v \in UntaggedVersions, pr \in Principals :
           \A m \in Located(t[1], t[2], v) :
              (DeleteVersionUntagged(t[1], t[2], v, pr, 0)
                 /\ IsManifestList(m)
                 /\ ReferencedBy(manifests, manifestRefs, m) # {})
              => last'.err = ErrConflict /\ m \in manifests']_vars

\* C3: for a manifest list L referencing a child C, deleting C while L
\* exists fails and deleting C once no manifest references it succeeds: a
\* located manifest is deletable exactly when no live manifest references it
\* (no store call failing).
C3_DeletableIffUnreferenced ==
    [][last'.op = "DeleteOCIArtifactVersion" =>
        \A t \in PushTargets, v \in UntaggedVersions, pr \in Principals :
           (DeleteVersionUntagged(t[1], t[2], v, pr, 0)
              /\ Located(t[1], t[2], v) # {})
           => (last'.err = ErrOK <=> ~LocatedIsReferenced(t[1], t[2], v))]_vars

\* C4: after a successful DeleteOCIImage(registry, image) the image has no
\* manifest, no artifact row and no image row; blobs are only unlinked from
\* this image, so the blobs table and the links of other images stay, and the
\* rows of other images and registries are unchanged.
C4_OCIImageCascade ==
    [][last'.op = "DeleteOCIImage" /\ last'.err = ErrOK =>
        \A t \in PushTargets, f \in 0..1 :
           DeleteOCIImage(t[1], t[2], f)
           => LET reg   == t[1]
                  image == t[2]
                  ids   == ImageIDsByName(images, reg, image)
                  other(r) == ~(r.reg = reg /\ r.image = image)
              IN  /\ CountByImageName(manifests', reg, image) = 0
                  /\ \A a \in artifacts' : a.imageID \notin ids
                  /\ ImageIDsByName(images', reg, image) = {}
                  /\ blobs' = blobs
                  /\ \A l \in blobLinks' : other(l)
                  /\ {l \in blobLinks : other(l)} = blobLinks'
                  /\ {m \in manifests : other(m)} = manifests'
                  /\ {i \in images : ~(i.reg = reg /\ i.name = image)} = images'
                  /\ {a \in artifacts : a.imageID \notin ids} = artifacts'
                  /\ {x \in tags : other(x)} = {x \in tags' : other(x)}]_vars

\* An image was deleted with its rows while another image keeps its manifest,
\* its row and its link to the shared blob.
C4_Witness ==
    /\ last.op = "DeleteOCIImage"
    /\ last.err = ErrOK
    /\ nextImageID > Cardinality(images) + 1
    /\ \E m \in manifests : \E l \in blobLinks :
          /\ l.reg = m.reg /\ l.image = m.image /\ l.blob \in blobs
          /\ ImageIDsByName(images, m.reg, m.image) # {}

\* C5: after a successful untagged-mode DeleteOCIArtifactVersion the
\* manifest, every tag pointing at it and the artifact row of that digest are
\* gone, and the image row is deleted if and only if the image has no
\* manifest left; an image with a manifest left keeps its row.
C5_UntaggedDeletePost ==
    [][last'.op = "DeleteOCIArtifactVersion" /\ last'.err = ErrOK =>
        \A t \in PushTargets, v \in UntaggedVersions, pr \in Principals, f \in 0..3 :
           DeleteVersionUntagged(t[1], t[2], v, pr, f)
           => LET reg   == t[1]
                  image == t[2]
                  ids   == ImageIDsByName(images, reg, image)
                  mine  == {i \in images : i.reg = reg /\ i.name = image}
              IN  /\ Located(reg, image, v) # {}
                  /\ \A m \in Located(reg, image, v) :
                        /\ m \notin manifests'
                        /\ \A x \in tags' : ~(x.reg = reg /\ x.manifestID = m.id)
                  /\ \A a \in artifacts' :
                        ~(a.imageID \in ids /\ a.version = NewDigest(v))
                  /\ mine # {}
                  /\ IF CountByImageName(manifests', reg, image) = 0
                     THEN ImageIDsByName(images', reg, image) = {}
                     ELSE {i \in images' : i.reg = reg /\ i.name = image} = mine]_vars

\* A tagged manifest was deleted with its tag and artifact row while its
\* image, holding another manifest, kept its row.
C5_Witness ==
    /\ last.op = "DeleteOCIArtifactVersion"
    /\ last.err = ErrOK
    /\ Len(last.events) = 1
    /\ LET e == last.events[1]
       IN  /\ FindManifestByDigest(manifests, e.reg, e.image, NewDigest(e.version)) = {}
           /\ CountByImageName(manifests, e.reg, e.image) >= 1
           /\ ImageIDsByName(images, e.reg, e.image) # {}
           /\ tags # {}

(***************************************************************************)
(* Properties of tagged-mode version deletion and of the webhook.          *)
(***************************************************************************)
\* What a tagged-mode deletion of (reg, image, version) may change.
TaggedDeletePost(reg, image, version) ==
    /\ UNCHANGED <<manifests, manifestRefs, artifacts, images, blobs, blobLinks>>
    /\ tags' = {t \in tags : ~(t.reg = reg /\ t.image = image /\ t.name = version)}

\* C6: in tagged mode, DeleteOCIArtifactVersion removes only the named tag
\* row: the manifest the tag pointed to, all other tags, and the artifact and
\* image rows are unchanged.
C6_TaggedDeleteOnlyTag ==
    [][last'.op = "DeleteOCIArtifactVersion" /\ last'.err = ErrOK =>
        /\ \A p \in Procs, f \in 0..1 :
              TaggedDeleteTag(p, f)
              => TaggedDeletePost(calls[p].reg, calls[p].image, calls[p].version)
        /\ \A t \in TaggedTagInputs, pr \in Principals, f \in 0..1 :
              DeleteVersionTaggedWhole(t[1], t[2], t[3], pr, f)
              => TaggedDeletePost(t[1], t[2], t[3])]_vars

\* A tag was deleted while its manifest, a second tag of the same manifest
\* and the artifact rows of both tags are still there.
C6_Witness ==
    /\ ~untagged
    /\ last.op = "DeleteOCIArtifactVersion"
    /\ last.err = ErrOK
    /\ Len(last.events) = 1
    /\ LET e == last.events[1]
       IN  /\ FindTag(tags, e.reg, e.image, e.version) = {}
           /\ \E m \in manifests, t \in tags :
                 /\ m.reg = e.reg /\ m.image = e.image /\ m.digest = e.digest
                 /\ t.manifestID = m.id
           /\ \E i \in ImageGetByName(images, e.reg, e.image) :
                 /\ ArtifactGetByName(artifacts, i.id, e.version) # {}
                 /\ Cardinality({a \in artifacts : a.imageID = i.id}) = 2

HookFired(events) ==
    \E i \in 1..Len(events) : events[i].kind = "ArtifactDeleted"

\* C7: for OCI version deletion the "artifact deleted" webhook is fired if
\* and only if the deletion succeeded, a principal was supplied and a
\* manifest digest was resolved; with a nil principal it is never fired, and
\* in tagged mode with a tag that was not resolved it is skipped.
C7_WebhookIff ==
    [][last'.op = "DeleteOCIArtifactVersion" =>
        /\ last'.err # ErrOK => ~HookFired(last'.events)
        /\ last'.err = ErrOK =>
           /\ \A t \in PushTargets, v \in UntaggedVersions, pr \in Principals, f \in 0..3 :
                 DeleteVersionUntagged(t[1], t[2], v, pr, f)
                 => (HookFired(last'.events)
                       <=> pr # NilPrincipal /\ Located(t[1], t[2], v) # {})
           /\ \A p \in Procs, f \in 0..1 :
                 TaggedDeleteTag(p, f)
                 => /\ HookFired(last'.events)
                         <=> /\ calls[p].principal # NilPrincipal
                             /\ calls[p].existingDigest # NoDigest
                    /\ ~calls[p].tagFound => ~HookFired(last'.events)
           /\ \A t \in TaggedTagInputs, pr \in Principals, f \in 0..1 :
                 DeleteVersionTaggedWhole(t[1], t[2], t[3], pr, f)
                 => (HookFired(last'.events)
                       <=> /\ pr # NilPrincipal
                           /\ \E x \in FindTag(tags, t[1], t[2], t[3]) :
                                 ManifestGet(manifests, x.manifestID) # {})]_vars

\* A request of a principal found its tag and the tag's manifest and is about
\* to delete the tag: the step that fires the webhook.
C7_Witness ==
    /\ ~untagged
    /\ \E p \in Procs :
          /\ calls[p].pc = "digestRead"
          /\ calls[p].principal # NilPrincipal
          /\ calls[p].tagFound
          /\ calls[p].existingDigest # NoDigest

\* C8: in tagged mode the digest carried by the webhook equals the digest of
\* the manifest the deleted tag pointed to at the moment the tag row was
\* deleted, also when another request re-points or deletes the tag between
\* this request's statements.
C8_WebhookDigestIsCurrent ==
    [][last'.op = "DeleteOCIArtifactVersion" =>
        \A p \in Procs, f \in 0..1 :
           (TaggedDeleteTag(p, f) /\ HookFired(last'.events))
           => \E t \in FindTag(tags, calls[p].reg, calls[p].image, calls[p].version) :
                 \E m \in ManifestGet(manifests, t.manifestID) :
                    last'.events[1].digest = m.digest]_vars

(***************************************************************************)
(* Properties of file-backed version deletion.                             *)
(***************************************************************************)
GenericDeleteOps ==
    {"DeleteGenericArtifact", "DeleteArtifactVersionByPackageType",
     "APIController.DeleteArtifactVersion"}

\* The step is the call named by op deleting (reg, image, version), whatever
\* the principal and the failing store call.
GenericDeleteStep(op, reg, image, version) ==
    \E f \in 0..2 :
       CASE op = "DeleteGenericArtifact" ->
               DeleteGenericArtifact(reg, image, version, f)
         [] op = "DeleteArtifactVersionByPackageType" ->
               \E pr \in Principals : DeleteVersionGeneric(reg, image, version, pr, f)
         [] OTHER ->
               \E pr \in Principals : ControllerDeleteVersion(reg, image, version, pr, f)

GenericDeletePost(reg, image, version) ==
    LET ids  == ImageIDsByName(images, reg, image)
        mine(a) == a.imageID \in ids /\ a.version = version
    IN  /\ \A x \in files' : ~(x.reg = reg /\ x.image = image /\ x.version = version)
        /\ \A a \in artifacts' : ~mine(a)
        /\ {a \in artifacts : ~mine(a)} = artifacts'
        /\ ImageIDsByName(images', reg, image) = {}
              <=> ~(\E a \in artifacts' : a.imageID \in ids)
        /\ {i \in images : ~(i.reg = reg /\ i.name = image)}
              = {i \in images' : ~(i.reg = reg /\ i.name = image)}
        /\ images' \subseteq images

\* C9: after a successful DeleteGenericArtifact(registry, type, image,
\* version) the backing file is deleted, the artifact row of (image, version)
\* is absent, the image row is absent if and only if no other artifact row
\* references the image, and artifact rows of other versions are unchanged.
C9_GenericDeletePost ==
    [][last'.op \in GenericDeleteOps /\ last'.err = ErrOK =>
        \A t \in GenericTargets, v \in GenericVersions :
           GenericDeleteStep(last'.op, t[1], t[2], v) => GenericDeletePost(t[1], t[2], v)]_vars

\* A GO version was deleted with its file while the package keeps its row
\* for the version that is left.
C9_Witness ==
    /\ last.op = "APIController.DeleteArtifactVersion"
    /\ last.err = ErrOK
    /\ Len(last.events) = 2
    /\ LET e == last.events[1]
       IN  \E i \in ImageGetByName(images, e.reg, e.image) :
              /\ ArtifactGetByName(artifacts, i.id, e.version) = {}
              /\ \E a \in artifacts : a.imageID = i.id
              /\ \A x \in files : ~(x.reg = e.reg /\ x.image = e.image /\ x.version = e.version)

\* C10: deleting a generic package version when its artifact and image rows
\* no longer exist returns a not-found error: it does not report success and
\* emits neither reindexing nor webhook events again.
C10_SecondDeleteNotFound ==
    [][last'.op \in GenericDeleteOps =>
        \A t \in GenericTargets, v \in GenericVersions :
           (GenericDeleteStep(last'.op, t[1], t[2], v) /\ ImageIDsByName(images, t[1], t[2]) = {})
           => last'.err = ErrNotFound /\ last'.events = <<>>]_vars

(***************************************************************************)
(* Properties of the post-deletion events.                                 *)
(***************************************************************************)
EventsOfKind(events, kind) ==
    {i \in 1..Len(events) : events[i].kind = kind}

\* C11: the reindexing service follows the decision table for every package
\* type and every principal, nil included: RPM emits exactly one
\* whole-registry index rebuild and no webhook; GO emits exactly one
\* artifact-deleted webhook and one package-level index rebuild; DOCKER,
\* HELM, NPM, MAVEN, PYTHON, GENERIC, NUGET, CARGO, HUGGINGFACE and unknown
\* types emit nothing.
C11_ReindexDecisionTable ==
    \A p \in Procs :
       (calls[p].pc = "reindexed" /\ last.op = "TriggerArtifactVersionReindexing")
       => LET c  == calls[p]
              ev == last.events
          IN  CASE c.packageType = "RPM" ->
                     /\ Len(ev) = 1
                     /\ ev[1].kind = "BuildRegistryIndex" /\ ev[1].reg = c.reg
                [] c.packageType = "GO" ->
                     /\ Len(ev) = 2
                     /\ Cardinality(EventsOfKind(ev, "BuildPackageIndex")) = 1
                     /\ Cardinality(EventsOfKind(ev, "ArtifactDeletedCommon")) = 1
                     /\ \A i \in 1..2 :
                           /\ ev[i].reg = c.reg /\ ev[i].image = c.image
                           /\ ev[i].kind = "ArtifactDeletedCommon" =>
                                 /\ ev[i].version = c.version
                                 /\ ev[i].principal =
                                       IF c.principal = NilPrincipal THEN 0 ELSE c.principal
                [] OTHER -> ev = <<>>

\* The reindexing service was called for a GO package by a cleanup job (nil
\* principal) and emitted its two events.
C11_Witness ==
    /\ last.op = "TriggerArtifactVersionReindexing"
    /\ \E p \in Procs :
          /\ calls[p].pc = "reindexed"
          /\ calls[p].packageType = "GO"
          /\ calls[p].principal = NilPrincipal
    /\ Len(last.events) = 2

VersionDeleteOps == {"DeleteOCIArtifactVersion", "DeleteArtifactVersionByPackageType"}

\* C12: DeleteArtifactVersionByPackageType invokes the reindexing service
\* exactly once, and only after the package-specific branch has returned
\* success; when the branch fails, or the image look-up of an unknown type
\* fails, reindexing is not invoked and the error is returned.
C12_ReindexOnceAfterSuccess ==
    [][last'.op \in VersionDeleteOps =>
        /\ last'.reindexCalls \in {0, 1}
        /\ last'.reindexCalls = 1 <=> last'.err = ErrOK
        /\ last'.err # ErrOK => last'.events = <<>>
        /\ \A pr \in Principals, f \in 0..1 :
              DeleteVersionTaggedWhole(DispatchOCI[1], DispatchOCI[2], DispatchOCI[4], pr, f)
              => (last'.reindexCalls = 1 <=> f = 0)
        /\ \A t \in DispatchFileTargets, v \in DispatchVersions, pr \in Principals,
              f \in 0..2 :
              DeleteVersionGeneric(t[1], t[2], v, pr, f)
              => /\ last'.reindexCalls = 1 <=> f = 0
                 /\ (f = 0 /\ PackageTypeOf(t[1]) = "GO") =>
                       Cardinality(EventsOfKind(last'.events, "BuildPackageIndex")) = 1
                 /\ (f = 0 /\ PackageTypeOf(t[1]) = "RPM") =>
                       Cardinality(EventsOfKind(last'.events, "BuildRegistryIndex")) = 1
        /\ \A t \in DispatchWrapperTargets, v \in DispatchVersions, pr \in Principals,
              w \in WrapperResults :
              DeleteVersionUnknown(t[1], t[2], v, pr, w)
              => /\ last'.reindexCalls = 1
                       <=> (ImageGetByName(images, t[1], t[2]) # {} /\ w = ErrOK)
                 /\ ImageGetByName(images, t[1], t[2]) = {} => last'.err = ErrNotFound
                 /\ (ImageGetByName(images, t[1], t[2]) # {} /\ w # ErrOK) => last'.err = w
       ]_vars

\* A deletion on a wrapper-managed registry failed at the image look-up while
\* a GO package is there: no reindexing was invoked.
C12_Witness ==
    /\ last.op = "DeleteArtifactVersionByPackageType"
    /\ last.err = ErrNotFound
    /\ last.reindexCalls = 0
    /\ ImageGetByName(images, "g2", "app") # {}
    /\ ImageGetByName(images, "c1", "app") # {}

EventSet(events) == {events[i] : i \in 1..Len(events)}

\* What DeleteArtifactVersionByPackageType emits when it deletes the version
\* in the current state and no store call fails.
ServiceEvents(reg, image, version, principal) ==
    IF PackageTypeOf(reg) \in {"DOCKER", "HELM"}
    THEN LET dig == IF untagged
                    THEN UntaggedDeleteTx(DB, reg, image, version, 0).existingDigest
                    ELSE ControllerExistingDigest(FALSE, tags, manifests, reg, image, version)
         IN  AfterBranch(ErrOK, OciWebhook(principal, reg, image, version, dig),
                         reg, image, version, principal)
    ELSE AfterBranch(ErrOK, <<>>, reg, image, version, principal)

\* C13: for each package type, a successful user-initiated version deletion
\* produces the same set of index rebuilds and webhooks through the metadata
\* controller's hard-delete path as through
\* DeleteArtifactVersionByPackageType.
C13_SameEventsOnBothPaths ==
    [][(last'.op = "APIController.DeleteArtifactVersion" /\ last'.err = ErrOK) =>
        /\ \A v \in PathVersions, pr \in Principals, f \in 0..3 :
              ControllerDeleteOciVersion(PathOCI[1], PathOCI[2], v, pr, f)
              => EventSet(last'.events) = EventSet(ServiceEvents(PathOCI[1], PathOCI[2], v, pr))
        /\ \A t \in PathFileTargets, v \in DispatchVersions, pr \in Principals, f \in 0..2 :
              ControllerDeleteVersion(t[1], t[2], v, pr, f)
              => EventSet(last'.events) = EventSet(ServiceEvents(t[1], t[2], v, pr))
       ]_vars

\* The controller deleted a GO version: webhook and package index rebuild.
C13_Witness ==
    /\ last.op = "APIController.DeleteArtifactVersion"
    /\ last.err = ErrOK
    /\ EventsOfKind(last.events, "ArtifactDeletedCommon") # {}
    /\ EventsOfKind(last.events, "BuildPackageIndex") # {}

\* No row and no file of the package is left.
OCIImageGone(reg, image) ==
    /\ ImageIDsByName(images', reg, image) = {}
    /\ \A m \in manifests' : ~(m.reg = reg /\ m.image = image)
    /\ \A l \in blobLinks' : ~(l.reg = reg /\ l.image = image)
    /\ \A a \in artifacts' : a.imageID \notin ImageIDsByName(images, reg, image)
    /\ blobs' = blobs

GenericImageGone(reg, image) ==
    /\ ImageIDsByName(images', reg, image) = {}
    /\ \A f \in files' : ~(f.reg = reg /\ f.image = image)
    /\ \A a \in artifacts' : a.imageID \notin ImageIDsByName(images, reg, image)

TablesUnchanged ==
    UNCHANGED <<images, artifacts, manifests, manifestRefs, tags, blobs, blobLinks, files>>

\* C14: DeleteImageByPackageType dispatches on the package type: DOCKER and
\* HELM run the OCI image cascade; GENERIC, MAVEN, PYTHON, NPM, NUGET and GO
\* run the generic image cascade; RPM returns an explicit unsupported error
\* and changes no row or file; a type the core does not know is handed to
\* PackageWrapper.DeleteArtifact and the core touches no row itself.
C14_ImageDispatch ==
    [][last'.op = "DeleteImageByPackageType" =>
        \A t \in {ImageOCI} \cup ImageFileTargets, f \in 0..2, w \in WrapperResults :
           DeleteImageByPackageType(t[1], t[2], f, w) =>
             LET pt == PackageTypeOf(t[1])
             IN  /\ pt \in {"DOCKER", "HELM"} =>
                       /\ last'.branch = "DeleteOCIImage"
                       /\ last'.err = ErrOK => OCIImageGone(t[1], t[2])
                       /\ last'.err # ErrOK => TablesUnchanged
                 /\ pt \in {"GENERIC", "MAVEN", "PYTHON", "NPM", "NUGET", "GO"} =>
                       /\ last'.branch = "DeleteGenericImage"
                       /\ last'.err = ErrOK => GenericImageGone(t[1], t[2])
                       /\ last'.err # ErrOK => TablesUnchanged
                 /\ pt = "RPM" =>
                       /\ last'.err = ErrUnsupported
                       /\ last'.branch = "unsupported"
                       /\ TablesUnchanged
                 /\ pt = "CUSTOM" =>
                       /\ last'.branch = "PackageWrapper.DeleteArtifact"
                       /\ last'.err = w
                       /\ TablesUnchanged
       ]_vars

\* Deleting an RPM package was refused while its rows and file are there.
C14_Witness ==
    /\ last.op = "DeleteImageByPackageType"
    /\ last.err = ErrUnsupported
    /\ ImageIDsByName(images, "g3", "app") # {}
    /\ \E f \in files : f.reg = "g3" /\ f.image = "app"

(***************************************************************************)
(* Properties of soft deletion and restoring.                              *)
(***************************************************************************)
\* The rows the call c is about, whatever their state.
SoftTargetRows(c, imgs, arts) ==
    IF c.op \in ImageTableOps
    THEN {i \in imgs : i.reg = c.reg /\ i.name = c.image}
    ELSE {a \in arts : /\ a.imageID \in ImageIDsByName(imgs, c.reg, c.image)
                       /\ c.op \in VersionOps => a.version = c.version}

\* C15: soft delete and restore are idempotent point mutations: SoftDelete
\* on a live entity affects 1 row and sets deleted_at and deleted_by (to the
\* call's time and principal); SoftDelete on an entity already soft-deleted
\* affects 0 rows and leaves deleted_at and deleted_by as they were; Restore
\* on a soft-deleted entity affects 1 row and clears both fields; Restore on
\* a live entity affects 0 rows.
C15_IdempotentPointMutations ==
    [][(last'.op \in PointOps /\ last'.err # ErrInternal) =>
        \A p \in Procs :
           SoftExec(p, 0) =>
             LET c        == calls[p]
                 before   == SoftTargetRows(c, images, artifacts)
                 after    == SoftTargetRows(c, images', artifacts')
                 affected == calls'[p].affected
             IN  /\ (c.op \in SoftDeleteOps /\ \E e \in before : e.deletedAt = NULL) =>
                       /\ affected = 1
                       /\ \A e \in after : e.deletedAt = c.now /\ e.deletedBy = c.user
                 /\ (c.op \in SoftDeleteOps /\ \E e \in before : e.deletedAt # NULL) =>
                       /\ affected = 0
                       /\ after = before
                 /\ (c.op \in RestoreOps /\ \E e \in before : e.deletedAt # NULL) =>
                       /\ affected = 1
                       /\ \A e \in after : e.deletedAt = NULL /\ e.deletedBy = NULL
                 /\ (c.op \in RestoreOps /\ \E e \in before : e.deletedAt = NULL) =>
                       /\ affected = 0
                       /\ after = before
       ]_vars

\* A second soft deletion of a version, by another principal, has affected
\* no row and the version keeps the first deletion's principal.
C15_Witness ==
    /\ calls["p1"].pc = "done"
    /\ calls["p1"].op = OpArtifactSoftDeleteVersion
    /\ calls["p1"].err = ErrNoRows
    /\ calls["p1"].affected = 0
    /\ \E a \in SoftTargetRows(calls["p1"], images, artifacts) :
          a.deletedAt # NULL /\ a.deletedBy # calls["p1"].user

\* The calls of the race that have run their statement on the given table for
\* the given package.
RaceDone(imageTable, image) ==
    {p \in RaceProcs : /\ calls[p].pc = "done"
                       /\ calls[p].err # ErrInternal
                       /\ (calls[p].op \in ImageTableOps) = imageTable
                       /\ calls[p].image = image}

RaceRows(imageTable, image) ==
    IF imageTable THEN {i \in images : i.reg = "g1" /\ i.name = image}
    ELSE {a \in artifacts : a.imageID \in ImageIDsByName(images, "g1", image)}

\* C16: under any interleaving of concurrent SoftDelete calls (or concurrent
\* Restore calls) on the same entity, exactly one call affects a row and the
\* others affect none; the stored deleted_at / deleted_by are those of the
\* winning call (after restores: cleared, with the winner's update stamp) and
\* a later loser never overwrites them.
C16_OneWinner ==
    \A imageTable \in BOOLEAN, image \in SoftImages :
       LET done    == RaceDone(imageTable, image)
           winners == {p \in done : calls[p].affected > 0}
       IN  done # {} =>
             /\ Cardinality(winners) = 1
             /\ \A w \in winners, e \in RaceRows(imageTable, image) :
                   /\ calls[w].affected = 1
                   /\ calls[w].op \in SoftDeleteOps =>
                         e.deletedAt = calls[w].now /\ e.deletedBy = calls[w].user
                   /\ calls[w].op \in RestoreOps =>
                         /\ e.deletedAt = NULL /\ e.deletedBy = NULL
                         /\ e.updatedAt = calls[w].now /\ e.updatedBy = calls[w].user

\* Two sessions soft-deleted the same package at different times: the one
\* that read the clock later ran first and won, the other has affected no row.
C16_Witness ==
    /\ \A p \in RaceProcs : calls[p].pc = "done" /\ calls[p].op = OpImageSoftDelete
    /\ calls["s1"].affected = 1
    /\ calls["s2"].affected = 0
    /\ calls["s2"].err = ErrNoRows
    /\ calls["s1"].now > calls["s2"].now
    /\ calls["s1"].user # calls["s2"].user

\* The live artifact rows with the row they were before their last soft
\* deletion: the versions that were soft-deleted and restored.
RestoredArtifacts ==
    {<<s, a>> \in snapshot.artifacts \X artifacts :
        a.imageID = s.imageID /\ a.version = s.version /\ a.deletedAt = NULL}

RestoredImages ==
    {<<s, i>> \in snapshot.images \X images : i.id = s.id /\ i.deletedAt = NULL}

\* A restored version is found by the filtered queries, the one that joins
\* the package when the package is live.
ArtifactVisibleAgain(a) ==
    /\ a \in ArtifactGetByNameFilter(artifacts, a.imageID, a.version,
                                     SoftDeleteFilterExcludeDeleted)
    /\ \A i \in images :
          (i.id = a.imageID /\ i.deletedAt = NULL) =>
             a \in ArtifactGetByRegistryImageAndVersion(
                       artifacts, images, i.reg, i.name, a.version,
                       SoftDeleteFilterExcludeDeleted)

ImageVisibleAgain(i) ==
    i \in ImageGetByNameFilter(images, registries, i.reg, i.name,
                               SoftDeleteFilterExcludeDeleted)

\* C17 as stated: for every entity e, Restore after SoftDelete yields an
\* entity whose every field except updated_at equals that of e before the
\* soft delete, and e is returned again by queries using ExcludeDeleted.
C17_RoundTripExceptUpdatedAt ==
    /\ \A r \in RestoredArtifacts :
          /\ [r[2] EXCEPT !.updatedAt = r[1].updatedAt] = r[1]
          /\ ArtifactVisibleAgain(r[2])
    /\ \A r \in RestoredImages :
          /\ [r[2] EXCEPT !.updatedAt = r[1].updatedAt] = r[1]
          /\ ImageVisibleAgain(r[2])

\* C17 (amended): for every entity e, Restore after SoftDelete yields an
\* entity whose every field except updated_at and updated_by equals that of
\* e before the soft delete, and e is returned again by queries using
\* ExcludeDeleted.
C17_RoundTrip ==
    /\ \A r \in RestoredArtifacts :
          /\ [r[2] EXCEPT !.updatedAt = r[1].updatedAt, !.updatedBy = r[1].updatedBy] = r[1]
          /\ ArtifactVisibleAgain(r[2])
    /\ \A r \in RestoredImages :
          /\ [r[2] EXCEPT !.updatedAt = r[1].updatedAt, !.updatedBy = r[1].updatedBy] = r[1]
          /\ ImageVisibleAgain(r[2])

\* A version was soft-deleted and has just been restored by a principal that
\* is now its updater.
C17_Witness ==
    /\ last.op = OpArtifactRestoreVersion
    /\ last.err = ErrOK
    /\ \E r \in RestoredArtifacts :
          r[2].updatedBy \in SoftUsers /\ r[2].updatedBy # r[1].updatedBy

\* C18: every soft-delete and restore operation that affects zero rows
\* (target absent or already in the target state) reports a "not found or
\* already in target state" error to its caller instead of returning
\* success: the per-version, per-image and all-artifacts-of-an-image
\* variants alike.
C18_ZeroRowsIsAnError ==
    [][(last'.op \in SoftDeleteOps \cup RestoreOps /\ last'.err # ErrInternal) =>
        \A p \in Procs :
           (SoftExec(p, 0) /\ calls'[p].affected = 0) => last'.err = ErrNoRows
      ]_vars

(***************************************************************************)
(* Properties of the reads.                                                *)
(***************************************************************************)
\* What is to be reported of an entity whose own and ancestors' deleted_at
\* are the given chain: deleted iff one of them is not null, and then at the
\* earliest of them.
EffectiveDeletion(chain) ==
    LET stamps == {d \in chain : d # NULL}
    IN  [isDeleted |-> stamps # {},
         deletedAt |-> IF stamps = {} THEN NULL
                       ELSE CHOOSE t \in stamps : \A u \in stamps : t <= u]

\* The artifact rows, with their image rows, that the last read asked for.
AskedArtifacts ==
    {x \in artifacts \X images :
        /\ x[2].reg = last.reg
        /\ x[2].name = last.image
        /\ x[1].imageID = x[2].id
        /\ last.version # "" => x[1].version = last.version}

AskedImages == {i \in images : i.reg = last.reg /\ i.name = last.image}

\* C19: every image and artifact returned to a caller is reported as deleted
\* iff it or an ancestor has a non-null deleted_at, and the reported
\* DeletedAt is the minimum non-null deleted_at among the entity and all its
\* ancestors (artifact, image, registry).
C19_EffectiveDeletion ==
    /\ last.op = OpImageGetByName =>
          \A v \in last.rows, i \in AskedImages :
             i.id = v.id =>
                [isDeleted |-> v.isDeleted, deletedAt |-> v.deletedAt]
                   = EffectiveDeletion({i.deletedAt, RegistryDeletedAt(registries, i.reg)})
    /\ last.op = OpFetchArtifactSummary =>
          \A v \in last.rows, x \in AskedArtifacts :
             v = EffectiveDeletion({x[1].deletedAt, x[2].deletedAt,
                                    RegistryDeletedAt(registries, x[2].reg)})

\* Whether an entity with the given chain of deleted_at is to be returned.
TriStateMatch(filter, chain) ==
    CASE filter = SoftDeleteFilterExcludeDeleted -> \A d \in chain : d = NULL
      [] filter = SoftDeleteFilterOnlyDeleted -> \E d \in chain : d # NULL
      [] filter = SoftDeleteFilterAll -> TRUE

\* C20: every get/list/count operation of the image and artifact
\* repositories applies the tri-state filter uniformly: ExcludeDeleted
\* returns an entity only if it and all its ancestors (image, registry) have
\* null deleted_at; OnlyDeleted returns it iff it or an ancestor has non-null
\* deleted_at; IncludeAll returns it regardless (so that exactly one of
\* ExcludeDeleted and OnlyDeleted matches any entity).
C20_UniformFilter ==
    /\ last.op \in ArtifactQueryOps =>
          \A x \in AskedArtifacts :
             (x[1] \in last.rows)
                = TriStateMatch(last.filter, {x[1].deletedAt, x[2].deletedAt,
                                              RegistryDeletedAt(registries, x[2].reg)})
    /\ last.op = OpImageGetByName =>
          \A i \in AskedImages :
             (\E v \in last.rows : v.id = i.id)
                = TriStateMatch(last.filter,
                                {i.deletedAt, RegistryDeletedAt(registries, i.reg)})

\* C21: soft-deleting a parent never writes to child rows: SoftDelete of an
\* image changes only that image's deleted_at / deleted_by and leaves every
\* artifact row as it was, while the image's artifacts are not returned
\* under ExcludeDeleted for as long as the image stays soft-deleted.
C21_CascadingOutageNotWrites ==
    [][/\ last'.op = OpImageSoftDelete =>
            \A p \in Procs :
               SoftExec(p, 0) =>
                  /\ artifacts' = artifacts
                  /\ \A i \in images :
                        \E j \in images' :
                           /\ [j EXCEPT !.deletedAt = i.deletedAt, !.deletedBy = i.deletedBy] = i
                           /\ j # i => i.reg = calls[p].reg /\ i.name = calls[p].image
       /\ (last'.op \in ArtifactQueryOps /\ last'.filter = SoftDeleteFilterExcludeDeleted) =>
             \A a \in last'.rows, i \in images :
                i.id = a.imageID => i.deletedAt = NULL
      ]_vars

(***************************************************************************)
(* Properties of Purge and of the lifecycle.                               *)
(***************************************************************************)
\* The rows of the account that were soft-deleted at or before the cutoff.
DueArtifacts(accountID, cutoff) ==
    {a \in artifacts : /\ a.deletedAt # NULL
                       /\ a.deletedAt <= cutoff
                       /\ \E i \in images : i.id = a.imageID /\ AccountOf(i.reg) = accountID}

DueImages(accountID, cutoff) ==
    {i \in images : i.deletedAt # NULL /\ i.deletedAt <= cutoff /\ AccountOf(i.reg) = accountID}

\* C22: Purge(account, cutoff) on a repository physically removes exactly
\* the rows of that account whose deleted_at is non-null and <= cutoff,
\* returns the number removed, and removes nothing else (no live row, no row
\* with deleted_at > cutoff, no row of another account); running it again
\* with the same cutoff removes nothing and returns 0.
C22_PurgeExact ==
    [][(last'.op \in PurgeOps /\ last'.err = ErrOK) =>
        \A op \in PurgeOps, acc \in Accounts, cutoff \in PurgeCutoffs :
           Purge(op, acc, cutoff, 0) =>
              /\ op = OpArtifactPurge =>
                    /\ artifacts' = artifacts \ DueArtifacts(acc, cutoff)
                    /\ images' = images
                    /\ last'.count = Cardinality(DueArtifacts(acc, cutoff))
              /\ op = OpImagePurge =>
                    /\ images' = images \ DueImages(acc, cutoff)
                    /\ artifacts' = artifacts
                    /\ last'.count = Cardinality(DueImages(acc, cutoff))
              /\ (/\ last.op = op /\ last.err = ErrOK
                  /\ last.account = acc /\ last.cutoff = cutoff) =>
                    /\ last'.count = 0
                    /\ artifacts' = artifacts
                    /\ images' = images
      ]_vars

\* A purge of the second account with cutoff 0 has removed its one version,
\* while the package of the first account is live and a version of the first
\* account, soft-deleted after the cutoff, is still there.
C22_Witness ==
    /\ last.op = OpArtifactPurge
    /\ last.err = ErrOK
    /\ last.account = "acc2"
    /\ last.cutoff = 0
    /\ last.count = 1
    /\ \E i \in images : i.reg = "g1" /\ i.deletedAt = NULL
    /\ \E a \in artifacts : a.deletedAt # NULL /\ a.deletedAt > 0
    /\ \A a \in artifacts : \E i \in images : i.id = a.imageID /\ i.reg = "g1"

\* Where a version or a package is in its life.
ArtifactState(arts, k) ==
    IF \E a \in arts : <<a.imageID, a.version>> = k /\ a.deletedAt = NULL THEN "Active"
    ELSE IF \E a \in arts : <<a.imageID, a.version>> = k THEN "SoftDeleted"
    ELSE "Absent"

ImageState(imgs, id) ==
    IF \E i \in imgs : i.id = id /\ i.deletedAt = NULL THEN "Active"
    ELSE IF \E i \in imgs : i.id = id THEN "SoftDeleted"
    ELSE "Absent"

\* A step from state s to state t of a row that was soft-deleted before
\* (everSoftDeleted) is one of the lifecycle.
LifecycleStep(s, t, everSoftDeleted) ==
    \/ s = t
    \/ s = "Active" /\ t = "SoftDeleted" /\ last'.op \in SoftDeleteOps
    \/ s = "SoftDeleted" /\ t = "Active" /\ last'.op \in RestoreOps
    \/ s = "SoftDeleted" /\ t = "Absent" /\ last'.op \in PurgeOps
    \/ s = "Absent" /\ t = "Active" /\ ~everSoftDeleted

WholeCascade(o) ==
    CASE o.op = OpTxOCIImage -> DeleteOCIImageTx(o.before, o.reg, o.image, 0).db
      [] o.op = OpTxUntagged -> UntaggedDeleteTx(o.before, o.reg, o.image, o.version, 0).db
      [] o.op = OpTxGenericImage -> DeleteGenericImageTx(o.before, o.reg, o.image, 0).db
      [] OTHER -> DeleteGenericArtifactTx(o.before, o.reg, o.image, o.version, 0).db

\* C24: every multi-row cascade (DeleteOCIImage, untagged
\* DeleteOCIArtifactVersion, DeleteGenericImage, DeleteGenericArtifact) is
\* atomic: when a step fails or the context is cancelled the call returns
\* an error and every manifest, tag, blob link, artifact and image row is
\* as it was before the call, and while the cascade runs no reader sees an
\* intermediate state of it.
C24_AtomicCascade ==
    [][/\ \A p \in Procs :
             calls'[p].pc \in {"tx", "commit"} => DB' = calls'[p].before
       /\ (last'.op \in TxOps /\ last'.err # ErrOK) => DB' = last'.before
       /\ (last'.op \in TxOps /\ last'.err = ErrOK) => DB' = WholeCascade(last')
      ]_vars

\* The untagged cascade had deleted manifest, tags and artifact row when
\* its count query failed: the call returned the error.
C24_Witness ==
    /\ last.op = OpTxUntagged
    /\ last.err = ErrInternal
    /\ Len(last.trace) >= 5
    /\ last.trace[Len(last.trace)] = "CountByImageName"
    /\ \E m \in manifests : m.reg = last.reg /\ m.image = last.image /\ m.digest = last.version

\* Every version row of a file-backed package has its file and every file
\* has its version row.
FilesMatchRows(db) ==
    /\ \A a \in db.artifacts : \A i \in db.images :
          (i.id = a.imageID /\ PackageTypeOf(i.reg) = "GENERIC") =>
             [reg |-> i.reg, image |-> i.name, version |-> a.version] \in db.files
    /\ \A f \in db.files :
          \E a \in db.artifacts, i \in db.images :
             i.id = a.imageID /\ i.reg = f.reg /\ i.name = f.image /\ a.version = f.version

GenericTxOps == {OpTxGenericImage, OpTxGenericArtifact}

\* C25: generic file-backed deletion keeps files and rows consistent in both
\* directions: when the file manager fails to delete the file no artifact
\* or image row is removed; when a database delete fails after the file
\* deletion step the file is not left deleted while its artifact row still
\* exists; no row ever points at a deleted file and no file is orphaned.
C25_FilesAndRows ==
    [][/\ FilesMatchRows(DB) => FilesMatchRows(DB')
       /\ (last'.op \in GenericTxOps /\ last'.err = ErrStorage) =>
             (artifacts' = last'.before.artifacts /\ images' = last'.before.images)
       /\ (last'.op \in GenericTxOps /\ last'.err = ErrInternal
             /\ Len(last'.trace) > 1) =>
             (files' = last'.before.files /\ artifacts' = last'.before.artifacts)
      ]_vars

\* DeleteGenericArtifact deleted the file, then its deletion of the version
\* row failed: the call returned the error and file and row are both there.
C25_Witness ==
    /\ last.op = OpTxGenericArtifact
    /\ last.err = ErrInternal
    /\ last.trace = <<"DeleteFile", "DeleteByVersionAndImageName">>
    /\ [reg |-> last.reg, image |-> last.image, version |-> last.version] \in files
    /\ \E a \in artifacts : a.version = last.version

\* Every artifact row has its image row.
NoDanglingArtifact == \A a \in artifacts : \E i \in images : i.id = a.imageID

\* C26: under any interleaving of two concurrent DeleteGenericArtifact calls
\* for different versions of the same image, and of a version deletion with
\* a concurrent version creation for that image, the image row is never
\* removed while an artifact row referencing it exists, and neither call
\* fails because of the other.
C26_RaceSafe ==
    /\ NoDanglingArtifact
    /\ last.op \in {OpTxGenericArtifact, OpCreateVersion} => last.err = ErrOK

\* Two deletions alone: as long as no version is
\* being created, no artifact row is without its image row and no deletion
\* fails.
TwoDeletionsSafe ==
    (\A p \in Creators : calls[p].pc = "idle" /\ last.op # OpCreateVersion
                         /\ ~(\E a \in artifacts : a.version = CreatedVersion)) =>
       C26_RaceSafe

\* Position of a store call in the calls a cascade has made (0: not made).
CallIndex(trace, name) ==
    IF \E k \in 1..Len(trace) : trace[k] = name
    THEN CHOOSE k \in 1..Len(trace) : trace[k] = name
    ELSE 0

\* C27: within an untagged-mode version deletion the steps occur in strict
\* child-before-parent order: the manifest and its tags are deleted before
\* the artifact row, and the image row is deleted only after a count query,
\* made after those deletions, has returned zero remaining manifests.
C27_ChildBeforeParent ==
    [][\A p \in Procs :
          (calls[p].pc = "tx" /\ calls[p].op = OpTxUntagged /\ calls'[p] # calls[p]) =>
             LET c     == calls[p]
                 view  == DBMinus(DB, c.del)
                 name  == Statement(c, view).name
                 mine  == {m \in view.manifests : m.reg = c.reg /\ m.image = c.image}
             IN  /\ name = "DeleteByVersionAndImageName" =>
                       /\ c.manifest \notin view.manifests
                       /\ ~(\E t \in view.tags : t.reg = c.reg /\ t.manifestID = c.manifest.id)
                       /\ 0 < CallIndex(c.trace, "Delete")
                       /\ 0 < CallIndex(c.trace, "DeleteTagByManifestID")
                 /\ name = "CountByImageName" =>
                       /\ CallIndex(c.trace, "Delete") < CallIndex(c.trace, "DeleteByVersionAndImageName")
                       /\ CallIndex(c.trace, "DeleteTagByManifestID")
                             < CallIndex(c.trace, "DeleteByVersionAndImageName")
                       /\ 0 < CallIndex(c.trace, "Delete")
                 /\ name = "DeleteByImageNameAndRegID" =>
                       /\ c.trace[Len(c.trace)] = "CountByImageName"
                       /\ c.count = 0
                       /\ mine = {}
      ]_vars

\* An untagged deletion of the last manifest of an image went through all
\* its calls, the image row's deletion last, and committed.
C27_Witness ==
    /\ last.op = OpTxUntagged
    /\ last.err = ErrOK
    /\ last.trace[Len(last.trace)] = "DeleteByImageNameAndRegID"
    /\ CallIndex(last.trace, "ReferencedBy") = 2
    /\ ImageIDsByName(images, last.reg, last.image) = {}
    /\ ImageIDsByName(last.before.images, last.reg, last.image) # {}

\* C28: the metadata controller's DeleteArtifactVersion maps outcomes to
\* responses: a missing registry, image or version gives 404 with no state
\* change; a manifest-list reference conflict gives a 409-equivalent
\* (conflict) response; any other failure gives a generic 500 response that
\* does not carry the internal error text.
C28_ResponseMapping ==
    last.op = "APIController.DeleteArtifactVersion" =>
       LET r == DeleteArtifactVersionResponse(last.err)
       IN  /\ last.err = ErrOK => r.status = StatusOK
           /\ last.err = ErrNotFound => r.status = StatusNotFound
           /\ last.err = ErrConflict => r.status = StatusConflict
           /\ last.err \in {ErrInternal, ErrStorage} =>
                 (r.status = StatusInternalServerError /\ r.message = GenericErrorText)

\* What the controller does do: 404 for a miss, and 500 with the error's
\* own text for everything else, the reference conflict included.
ResponseAsCoded ==
    last.op = "APIController.DeleteArtifactVersion" =>
       LET r == DeleteArtifactVersionResponse(last.err)
       IN  /\ last.err = ErrOK => r.status = StatusOK
           /\ last.err = ErrNotFound => r.status = StatusNotFound
           /\ last.err \in {ErrConflict, ErrInternal, ErrStorage} =>
                 (r.status = StatusInternalServerError /\ r.message = ErrorText(last.err))

SideOps == {"DeleteArtifactVersionByPackageType", "APIController.DeleteArtifactVersion"}

\* C29: a failure of reindexing, webhook emission or audit logging never
\* turns a committed deletion into a failure: once the deletion transaction
\* has committed the deletion call returns success (and the controller
\* returns 200) whatever the side channels do, and the side channel is not
\* retried in this code path.
C29_SideChannelsNeverFailDeletion ==
    (last.op \in SideOps /\ last.committed) =>
       /\ last.err = ErrOK
       /\ last.op = "APIController.DeleteArtifactVersion" =>
             (last.response.status = StatusOK /\ last.auditCalls = 1)
       /\ last.op = "DeleteArtifactVersionByPackageType" => last.reindexCalls = 1
       /\ \A k1, k2 \in 1..Len(last.events) : last.events[k1] = last.events[k2] => k1 = k2
       /\ ~(\E a \in artifacts, i \in images :
               i.id = a.imageID /\ i.reg = last.reg /\ i.name = last.image
               /\ a.version = last.version)

\* The controller deleted a version of a GO package, its transaction
\* committed, and both the reporters and the audit service failed.
C29_Witness ==
    /\ last.op = "APIController.DeleteArtifactVersion"
    /\ last.committed
    /\ last.channelFails
    /\ last.auditFails
    /\ PackageTypeOf(last.reg) = "GO"
    /\ Len(last.events) = 2
    /\ last.response.status = StatusOK

\* C31: when the last two versions of a generic image are deleted by two
\* concurrent DeleteGenericArtifact transactions and both commit, the image
\* row is absent afterwards: no interleaving leaves an image row with zero
\* artifact rows behind.
C31_NoOrphanImage ==
    (/\ \A p \in Deleters \cup Creators : calls[p].pc = "idle"
     /\ ~(\E a \in artifacts : a.version = CreatedVersion)) =>
       \A i \in images : \E a \in artifacts : a.imageID = i.id

\* C32: in untagged mode the image row is never deleted while a manifest
\* for that image exists, also when a manifest for the same image is pushed
\* concurrently between the CountByImageName read and the unconditional
\* DeleteByImageNameAndRegID write of a running version deletion.
C32_ImageOutlivesManifests ==
    untagged => \A m \in manifests : ImageIDsByName(images, m.reg, m.image) # {}

\* A version whose own soft deletion is older than the package's: it carries
\* the stamp of the session that deletes single versions, and the package
\* row or a sibling version carries a later stamp of the session that
\* deletes packages.
DeletedBeforeItsPackage(a) ==
    /\ a.deletedAt # NULL
    /\ a.deletedBy = VersionActor
    /\ \/ \E i \in images : /\ i.id = a.imageID
                             /\ i.deletedBy = PackageActor
                             /\ i.deletedAt > a.deletedAt
       \/ \E s \in artifacts : /\ s.imageID = a.imageID
                                /\ s.deletedBy = PackageActor
                                /\ s.deletedAt > a.deletedAt

\* C34: restoring a package does not resurrect a version that was
\* soft-deleted on its own before the package was soft-deleted: whenever a
\* package-wide restore succeeds, every such version keeps its row as it
\* was, deleted_at and deleted_by included.
C34_RestoreKeepsOwnDeletion ==
    [][\A p \in Procs :
          (/\ calls[p].pc = "nowRead"
           /\ calls[p].op \in {OpArtifactRestoreImage, OpImageRestore}
           /\ calls'[p].pc = "done"
           /\ calls'[p].err = ErrOK) =>
             \A a \in artifacts :
                (/\ a.imageID \in ImageIDsByName(images, calls[p].reg, calls[p].image)
                 /\ DeletedBeforeItsPackage(a)) => a \in artifacts']_vars

\* C35: hard-deleting the last live version of a file-backed package never
\* removes the package row while a soft-deleted version of it exists: after
\* DeleteGenericArtifact every soft-deleted version that was there is still
\* there, unchanged, and so is the row of its package.
C35_SoftDeletedVersionKeepsImage ==
    [][last'.op = "DeleteGenericArtifact" =>
          \A a \in artifacts :
             a.deletedAt # NULL =>
                /\ a \in artifacts'
                /\ \E i \in images' : i.id = a.imageID /\ i \in images]_vars

\* The last live version has been deleted for good; a soft-deleted version
\* and the package row are what is left.
C35_Witness ==
    /\ last.op = "DeleteGenericArtifact"
    /\ last.err = ErrOK
    /\ \E i \in images :
          /\ \E a \in artifacts : a.imageID = i.id
          /\ \A a \in artifacts : a.imageID = i.id => a.deletedAt # NULL

\* A soft deletion or a restore of call p has just succeeded.
SoftStepDone(p) ==
    /\ calls[p].pc = "nowRead"
    /\ calls'[p].pc = "done"
    /\ calls'[p].err = ErrOK

\* C36: retention is measured from the most recent soft delete.  Every
\* successful soft delete stamps its row with the time of that call, whatever
\* the row went through before; every successful restore leaves the row
\* with no deletion time; and a Purge removes no row that is live or whose
\* deletion time is later than the cutoff: so a row soft-deleted at T1,
\* restored and soft-deleted again at T2 > T1 survives a Purge with cutoff c,
\* T1 <= c < T2, and a restored row survives every Purge.
C36_RetentionFromLastSoftDelete ==
    [][/\ \A p \in Procs :
             SoftStepDone(p) =>
                LET c     == calls[p]
                    stamp == IF c.op \in SoftDeleteOps THEN c.now ELSE NULL
                IN  /\ c.op \in VersionOps =>
                          \A a \in artifacts' :
                             (/\ a.imageID \in ImageIDsByName(images, c.reg, c.image)
                              /\ a.version = c.version) => a.deletedAt = stamp
                    /\ c.op \in ImageTableOps =>
                          \A i \in images' :
                             (i.reg = c.reg /\ i.name = c.image) => i.deletedAt = stamp
       /\ last'.op \in PurgeOps =>
             /\ \A a \in artifacts :
                   (a.deletedAt = NULL \/ a.deletedAt > last'.cutoff) => a \in artifacts'
             /\ \A i \in images :
                   (i.deletedAt = NULL \/ i.deletedAt > last'.cutoff) => i \in images'
      ]_vars

\* A version was soft-deleted at time 0, restored at time 0 and soft-deleted
\* again at time 1; a Purge of its account with cutoff 0 has run and the
\* version is still there.
C36_Witness ==
    /\ last.op = OpArtifactPurge
    /\ last.err = ErrOK
    /\ last.account = "acc1"
    /\ last.cutoff = 0
    /\ \E a \in artifacts :
          /\ a.deletedAt = 1
          /\ \E i \in images : i.id = a.imageID /\ i.reg = "g1"
          /\ \E x \in snapshot.artifacts :
                /\ x.imageID = a.imageID
                /\ x.version = a.version
                /\ x.updatedBy = 42
                /\ x.updatedAt = 0

\* C37: a webhook or an index-rebuild event is emitted only for a deletion
\* whose transaction has committed, and at most once per successful call:
\* while the transaction runs, and when it is rolled back, no event is
\* emitted; the events of a call are emitted after its commit, the database
\* being already as the commit left it; the reindexing service is called at
\* most once and no event is emitted twice.
C37_EventsOnlyAfterCommit ==
    [][\A p \in Procs :
          /\ (calls[p].pc \in {"tx", "commit"} \/ calls'[p].pc \in {"tx", "commit"}) =>
                last'.events = <<>>
          /\ (calls[p].pc = "after" /\ calls'[p].pc = "idle") =>
                LET ev == last'.events
                IN  /\ ev # <<>> => /\ calls[p].committed
                                     /\ last'.err = ErrOK
                                     /\ DB' = DB
                    /\ last'.err # ErrOK => ev = <<>> /\ last'.reindexCalls = 0
                    /\ last'.reindexCalls <= 1
                    /\ \A i, j \in 1..Len(ev) : i # j => ev[i] # ev[j]
      ]_vars

\* A version of the GO package was deleted: the transaction committed and
\* the call then emitted the webhook and the index rebuild, once each.
C37_Witness ==
    /\ last.op = OpVersionCall
    /\ last.err = ErrOK
    /\ last.committed
    /\ Len(last.events) = 2
    /\ ~(\E a \in artifacts : \E i \in images : i.id = a.imageID /\ i.reg = "g2")

\* C38: query options compose deterministically.  With no option the filter
\* is the one that excludes deleted rows; with several options the last one
\* decides; WithAllDeleted, WithOnlyDeleted and WithExcludeDeleted select
\* the include-all, only-deleted and exclude-deleted filters; and
\* ExtractSoftDeleteFilter returns the filter of the options value
\* MakeQueryOptions computed.
C38_OptionsCompose ==
    last.op = "MakeQueryOptions" =>
       LET opts == last.opts
           n    == Len(opts)
       IN  /\ n = 0 => last.options.SoftDeleteFilter = SoftDeleteFilterExclude
           /\ n > 0 => last.options.SoftDeleteFilter = opts[n].SoftDeleteFilter
           /\ n > 0 /\ opts[n] = WithAllDeleted =>
                 last.options.SoftDeleteFilter = SoftDeleteFilterInclude
           /\ n > 0 /\ opts[n] = WithOnlyDeleted =>
                 last.options.SoftDeleteFilter = SoftDeleteFilterOnly
           /\ n > 0 /\ opts[n] = WithExcludeDeleted =>
                 last.options.SoftDeleteFilter = SoftDeleteFilterExclude
           /\ last.filter = last.options.SoftDeleteFilter
           /\ last.options = MakeQueryOptions(opts)

\* WithOnlyDeleted was followed by WithAllDeleted, and the filter is the one
\* that includes every row.
C38_Witness ==
    /\ last.op = "MakeQueryOptions"
    /\ last.opts = <<WithOnlyDeleted, WithAllDeleted>>
    /\ last.filter = SoftDeleteFilterInclude

\* C39: the audit dual write is best effort on both legs: whenever the audit
\* log write was made and there is a UDP store, the UDP insert is attempted,
\* whether or not the audit log write succeeded; a failure of either leg is
\* logged (checked for the UDP leg where its code is at hand), and no error
\* is returned to the caller.
C39_DualWriteBestEffort ==
    last.op \in AuditOps =>
       /\ (last.auditCalled /\ last.udpStore) => last.udpAttempted
       /\ last.err = ErrOK
       /\ last.auditFails => WarnAuditLog \in last.logged
       /\ (last.op # OpRegistryAuditLog /\ last.udpAttempted /\ last.udpFails) =>
             WarnUDPInsert \in last.logged

====
